---- MODULE Spec2Model ----
(***************************************************************************)
(* A model of the desugaring engine (crates/compiler/can/src/desugar.rs)   *)
(* and of constraint validation (compiler/can/src/constraint.rs).          *)
(*                                                                         *)
(* Syntax trees are records with a "tag" field.  A located node is         *)
(* [region |-> <<start, end>>, value |-> node].  Functions that take       *)
(* `line_info: &mut Option<LineInfo>` take and return a threaded state     *)
(*     st = [computed, builds, aborted]                                    *)
(* where computed says line_info is Some, builds counts LineInfo::new      *)
(* calls, and aborted says that a panic (todo!, unreachable!, unwrap on    *)
(* None, internal_error!) has already ended the call.                      *)
(***************************************************************************)
EXTENDS Integers, Sequences, FiniteSets, TLC

VARIABLES pc, loc_expr, line_info, result, constraint, outcome,
          args_stack, ops_stack, pairs, incoming_op, unwrap_stack

(* The locals of the calls the model runs step by step.  Of a running      *)
(* desugar_bin_ops: the two stacks, the pairs of lefts not yet visited and *)
(* the operator handed to run_binop_step.  Of unwrap_suffixed_expression:  *)
(* one frame per call in progress, with its loc_expr and its place in the  *)
(* loop over the definitions.                                              *)
locals == <<args_stack, ops_stack, pairs, incoming_op, unwrap_stack>>

vars == <<pc, loc_expr, line_info, result, constraint, outcome,
          args_stack, ops_stack, pairs, incoming_op, unwrap_stack>>

(***************************************************************************)
(* Regions and located values                                              *)
(***************************************************************************)
Loc(region, value) == [region |-> region, value |-> value]

span_across(r1, r2) == <<r1[1], r2[2]>>

NoRegion == <<0, 0>>

AbortNode(why) == Loc(NoRegion, [tag |-> "Abort", why |-> why])

IsAbort(loc) == loc.value.tag = "Abort"

Var(module_name, ident) ==
    [tag |-> "Var", module_name |-> module_name, ident |-> ident, suffixed |-> 0]

Apply(fn, args, called_via) ==
    [tag |-> "Apply", fn |-> fn, args |-> args, called_via |-> called_via]

ViaSpace == [via |-> "Space"]
ViaBinOp(op) == [via |-> "BinOp", op |-> op]
ViaUnaryOp(op) == [via |-> "UnaryOp", op |-> op]
ViaRecordBuilder == [via |-> "RecordBuilder"]

Reverse(s) == [i \in 1..Len(s) |-> s[Len(s) + 1 - i]]

Min(a, b) == IF a < b THEN a ELSE b

(***************************************************************************)
(* Binary operators: precedence and associativity (roc_module::called_via) *)
(***************************************************************************)
StructuralOps == {"Assignment", "IsAliasType", "IsOpaqueType", "Backpassing"}

precedence(op) ==
    CASE op = "Caret" -> 7
      [] op \in {"Star", "Slash", "DoubleSlash", "Percent"} -> 6
      [] op \in {"Plus", "Minus"} -> 5
      [] op \in {"Equals", "NotEquals", "LessThan", "GreaterThan",
                 "LessThanOrEq", "GreaterThanOrEq"} -> 4
      [] op = "And" -> 3
      [] op = "Or" -> 2
      [] op = "Pizza" -> 1
      [] OTHER -> 0

associativity(op) ==
    CASE op \in {"Pizza", "Star", "Slash", "DoubleSlash", "Percent", "Plus", "Minus"}
            -> "LeftAssociative"
      [] op \in {"And", "Or", "Caret"} -> "RightAssociative"
      [] op \in {"Equals", "NotEquals", "LessThan", "GreaterThan",
                 "LessThanOrEq", "GreaterThanOrEq"} -> "NonAssociative"
      [] OTHER -> "unreachable"

binop_to_function(binop) ==
    CASE binop = "Caret" -> <<"Num", "pow">>
      [] binop = "Star" -> <<"Num", "mul">>
      [] binop = "Slash" -> <<"Num", "div">>
      [] binop = "DoubleSlash" -> <<"Num", "divTrunc">>
      [] binop = "Percent" -> <<"Num", "rem">>
      [] binop = "Plus" -> <<"Num", "add">>
      [] binop = "Minus" -> <<"Num", "sub">>
      [] binop = "Equals" -> <<"Bool", "isEq">>
      [] binop = "NotEquals" -> <<"Bool", "isNotEq">>
      [] binop = "LessThan" -> <<"Num", "isLt">>
      [] binop = "GreaterThan" -> <<"Num", "isGt">>
      [] binop = "LessThanOrEq" -> <<"Num", "isLte">>
      [] binop = "GreaterThanOrEq" -> <<"Num", "isGte">>
      [] binop = "And" -> <<"Bool", "and">>
      [] binop = "Or" -> <<"Bool", "or">>
      [] OTHER -> <<"unreachable", "unreachable">>

FunctionVar(fun) == Var(fun[1], fun[2])

(* new_op_call_expr with the piped value appended instead of prepended.   *)
new_op_call_expr_append(left, loc_op, right) ==
    IF loc_op.value = "Pizza"
    THEN IF right.value.tag = "Apply"
         THEN Loc(span_across(left.region, right.region),
                  Apply(right.value.fn, Append(right.value.args, left), ViaBinOp("Pizza")))
         ELSE Loc(span_across(left.region, right.region),
                  Apply(right, <<left>>, ViaBinOp("Pizza")))
    ELSE IF binop_to_function(loc_op.value)[1] = "unreachable"
         THEN AbortNode("binop_to_function")
         ELSE Loc(span_across(left.region, right.region),
                  Apply(Loc(loc_op.region, FunctionVar(binop_to_function(loc_op.value))),
                        <<left, right>>, ViaBinOp(loc_op.value)))

(* new_op_call_expr handing the two operands over in reverse.             *)
new_op_call_expr_flipped(left, loc_op, right) ==
    IF loc_op.value = "Pizza"
    THEN IF right.value.tag = "Apply"
         THEN Loc(span_across(left.region, right.region),
                  Apply(right.value.fn, <<left>> \o right.value.args, ViaBinOp("Pizza")))
         ELSE Loc(span_across(left.region, right.region),
                  Apply(right, <<left>>, ViaBinOp("Pizza")))
    ELSE IF binop_to_function(loc_op.value)[1] = "unreachable"
         THEN AbortNode("binop_to_function")
         ELSE Loc(span_across(left.region, right.region),
                  Apply(Loc(loc_op.region, FunctionVar(binop_to_function(loc_op.value))),
                        <<right, left>>, ViaBinOp(loc_op.value)))

(* new_op_call_expr: `left op right` as an application.  The pipe splices  *)
(* left in front of the arguments of an application on its right.          *)
new_op_call_expr(left, loc_op, right) ==
    IF loc_op.value = "Pizza"
    THEN IF right.value.tag = "Apply"
         THEN Loc(span_across(left.region, right.region),
                  Apply(right.value.fn, <<left>> \o right.value.args, ViaBinOp("Pizza")))
         ELSE Loc(span_across(left.region, right.region),
                  Apply(right, <<left>>, ViaBinOp("Pizza")))
    ELSE IF binop_to_function(loc_op.value)[1] = "unreachable"
         THEN AbortNode("binop_to_function")
         ELSE Loc(span_across(left.region, right.region),
                  Apply(Loc(loc_op.region, FunctionVar(binop_to_function(loc_op.value))),
                        <<left, right>>, ViaBinOp(loc_op.value)))

(* binop_step: one comparison of the incoming operator with the top of the *)
(* operator stack.  step is "Push" (reduced, retry), "Skip" (operator      *)
(* pushed), "Error" (precedence conflict) or "Panic".                      *)
StepResult(step, arg_stack, op_stack, problem) ==
    [step |-> step, arg_stack |-> arg_stack, op_stack |-> op_stack, problem |-> problem]

(* Pushed popping one operand only.                                       *)
Pushed_one_pop(arg_stack, op_stack, call) ==
    IF Len(arg_stack) < 2 \/ IsAbort(call)
    THEN StepResult("Panic", arg_stack, op_stack, AbortNode("binop_step"))
    ELSE StepResult("Push", Append(SubSeq(arg_stack, 1, Len(arg_stack) - 1), call),
                    op_stack, AbortNode("none"))

(* arg_stack.pop() twice, then arg_stack.push(call)                        *)
Pushed(arg_stack, op_stack, call) ==
    IF Len(arg_stack) < 2 \/ IsAbort(call)
    THEN StepResult("Panic", arg_stack, op_stack, AbortNode("binop_step"))
    ELSE StepResult("Push", Append(SubSeq(arg_stack, 1, Len(arg_stack) - 2), call),
                    op_stack, AbortNode("none"))

(* Inline leaving the reduced operator on the operator stack.              *)
Inline_unpopped(arg_stack, op_stack, stack_op) ==
    Pushed(arg_stack, Append(op_stack, stack_op),
           new_op_call_expr(arg_stack[Len(arg_stack) - 1], stack_op,
                            arg_stack[Len(arg_stack)]))

Inline(arg_stack, op_stack, stack_op) ==
    Pushed(arg_stack, op_stack,
           new_op_call_expr(arg_stack[Len(arg_stack) - 1], stack_op,
                            arg_stack[Len(arg_stack)]))

(* arg_stack.pop() twice, then Step::Error(PrecedenceConflict { .. })      *)
Errored(whole_region, arg_stack, op_stack, binop1, binop2, broken_expr) ==
    IF Len(arg_stack) < 2 \/ IsAbort(broken_expr)
    THEN StepResult("Panic", arg_stack, op_stack, AbortNode("binop_step"))
    ELSE StepResult("Error", SubSeq(arg_stack, 1, Len(arg_stack) - 2), op_stack,
                    Loc(broken_expr.region,
                        [tag |-> "PrecedenceConflict",
                         whole_region |-> whole_region,
                         binop1_position |-> binop1.region[1],
                         binop1 |-> binop1.value,
                         binop2_position |-> binop2.region[1],
                         binop2 |-> binop2.value,
                         expr |-> broken_expr]))

(* Conflict recording the two operators the wrong way round.              *)
Conflict_swapped(whole_region, arg_stack, op_stack, stack_op, bad_op) ==
    Errored(whole_region, arg_stack, op_stack, bad_op, stack_op,
            new_op_call_expr(arg_stack[Len(arg_stack) - 1], stack_op,
                             arg_stack[Len(arg_stack)]))

(* Conflict taking the two operands at the bottom of the stack.           *)
Conflict_bottom(whole_region, arg_stack, op_stack, stack_op, bad_op) ==
    Errored(whole_region, arg_stack, op_stack, stack_op, bad_op,
            new_op_call_expr(arg_stack[1], stack_op, arg_stack[2]))

Conflict(whole_region, arg_stack, op_stack, stack_op, bad_op) ==
    Errored(whole_region, arg_stack, op_stack, stack_op, bad_op,
            new_op_call_expr(arg_stack[Len(arg_stack) - 1], stack_op,
                             arg_stack[Len(arg_stack)]))

(* binop_step reducing where it should defer to a higher precedence.      *)
binop_step_eager(whole_region, arg_stack, op_stack, next_op) ==
    IF op_stack = <<>>
    THEN StepResult("Skip", arg_stack, <<next_op>>, AbortNode("none"))
    ELSE LET stack_op == op_stack[Len(op_stack)]
             popped == SubSeq(op_stack, 1, Len(op_stack) - 1)
             swap == StepResult("Skip", arg_stack, Append(op_stack, next_op),
                                AbortNode("none"))
             pn == precedence(next_op.value)
             ps == precedence(stack_op.value)
             an == associativity(next_op.value)
             as == associativity(stack_op.value)
         IN  IF pn = 0 \/ ps = 0
             THEN StepResult("Panic", arg_stack, popped, AbortNode("precedence"))
             ELSE IF pn < ps THEN Inline(arg_stack, popped, stack_op)
             ELSE IF pn > ps THEN Inline(arg_stack, popped, stack_op)
             ELSE IF an = "LeftAssociative" /\ as = "LeftAssociative"
                  THEN Inline(arg_stack, popped, stack_op)
             ELSE IF an = "RightAssociative" /\ as = "RightAssociative" THEN swap
             ELSE IF an = "NonAssociative" /\ as = "NonAssociative"
                  THEN Conflict(whole_region, arg_stack, popped, stack_op, next_op)
             ELSE StepResult("Panic", arg_stack, popped, AbortNode("internal_error"))

(* binop_step deferring where it should reduce a left-associative pair.    *)
binop_step_defer(whole_region, arg_stack, op_stack, next_op) ==
    IF op_stack = <<>>
    THEN StepResult("Skip", arg_stack, <<next_op>>, AbortNode("none"))
    ELSE LET stack_op == op_stack[Len(op_stack)]
             popped == SubSeq(op_stack, 1, Len(op_stack) - 1)
             swap == StepResult("Skip", arg_stack, Append(op_stack, next_op),
                                AbortNode("none"))
             pn == precedence(next_op.value)
             ps == precedence(stack_op.value)
             an == associativity(next_op.value)
             as == associativity(stack_op.value)
         IN  IF pn = 0 \/ ps = 0
             THEN StepResult("Panic", arg_stack, popped, AbortNode("precedence"))
             ELSE IF pn < ps THEN Inline(arg_stack, popped, stack_op)
             ELSE IF pn > ps THEN swap
             ELSE IF an = "LeftAssociative" /\ as = "LeftAssociative" THEN swap
             ELSE IF an = "RightAssociative" /\ as = "RightAssociative" THEN swap
             ELSE IF an = "NonAssociative" /\ as = "NonAssociative"
                  THEN Conflict(whole_region, arg_stack, popped, stack_op, next_op)
             ELSE StepResult("Panic", arg_stack, popped, AbortNode("internal_error"))

(* binop_step reducing a right-associative pair as if left-associative.   *)
binop_step_inline_right(whole_region, arg_stack, op_stack, next_op) ==
    IF op_stack = <<>>
    THEN StepResult("Skip", arg_stack, <<next_op>>, AbortNode("none"))
    ELSE LET stack_op == op_stack[Len(op_stack)]
             popped == SubSeq(op_stack, 1, Len(op_stack) - 1)
             swap == StepResult("Skip", arg_stack, Append(op_stack, next_op),
                                AbortNode("none"))
             pn == precedence(next_op.value)
             ps == precedence(stack_op.value)
             an == associativity(next_op.value)
             as == associativity(stack_op.value)
         IN  IF pn = 0 \/ ps = 0
             THEN StepResult("Panic", arg_stack, popped, AbortNode("precedence"))
             ELSE IF pn < ps THEN Inline(arg_stack, popped, stack_op)
             ELSE IF pn > ps THEN swap
             ELSE IF an = "LeftAssociative" /\ as = "LeftAssociative"
                  THEN Inline(arg_stack, popped, stack_op)
             ELSE IF an = "RightAssociative" /\ as = "RightAssociative"
                  THEN Inline(arg_stack, popped, stack_op)
             ELSE IF an = "NonAssociative" /\ as = "NonAssociative"
                  THEN Conflict(whole_region, arg_stack, popped, stack_op, next_op)
             ELSE StepResult("Panic", arg_stack, popped, AbortNode("internal_error"))

(* binop_step pushing an operator of lower precedence without reducing.    *)
binop_step_swap_lower(whole_region, arg_stack, op_stack, next_op) ==
    IF op_stack = <<>>
    THEN StepResult("Skip", arg_stack, <<next_op>>, AbortNode("none"))
    ELSE LET stack_op == op_stack[Len(op_stack)]
             popped == SubSeq(op_stack, 1, Len(op_stack) - 1)
             swap == StepResult("Skip", arg_stack, Append(op_stack, next_op),
                                AbortNode("none"))
             pn == precedence(next_op.value)
             ps == precedence(stack_op.value)
             an == associativity(next_op.value)
             as == associativity(stack_op.value)
         IN  IF pn = 0 \/ ps = 0
             THEN StepResult("Panic", arg_stack, popped, AbortNode("precedence"))
             ELSE IF pn < ps THEN swap
             ELSE IF pn > ps THEN swap
             ELSE IF an = "LeftAssociative" /\ as = "LeftAssociative"
                  THEN Inline(arg_stack, popped, stack_op)
             ELSE IF an = "RightAssociative" /\ as = "RightAssociative" THEN swap
             ELSE IF an = "NonAssociative" /\ as = "NonAssociative"
                  THEN Conflict(whole_region, arg_stack, popped, stack_op, next_op)
             ELSE StepResult("Panic", arg_stack, popped, AbortNode("internal_error"))

binop_step(whole_region, arg_stack, op_stack, next_op) ==
    IF op_stack = <<>>
    THEN StepResult("Skip", arg_stack, <<next_op>>, AbortNode("none"))
    ELSE LET stack_op == op_stack[Len(op_stack)]
             popped == SubSeq(op_stack, 1, Len(op_stack) - 1)
             swap == StepResult("Skip", arg_stack, Append(op_stack, next_op),
                                AbortNode("none"))
             pn == precedence(next_op.value)
             ps == precedence(stack_op.value)
             an == associativity(next_op.value)
             as == associativity(stack_op.value)
         IN  IF pn = 0 \/ ps = 0
             THEN StepResult("Panic", arg_stack, popped, AbortNode("precedence"))
             ELSE IF pn < ps THEN Inline(arg_stack, popped, stack_op)
             ELSE IF pn > ps THEN swap
             ELSE IF an = "LeftAssociative" /\ as = "LeftAssociative"
                  THEN Inline(arg_stack, popped, stack_op)
             ELSE IF an = "RightAssociative" /\ as = "RightAssociative" THEN swap
             ELSE IF an = "NonAssociative" /\ as = "NonAssociative"
                  THEN Conflict(whole_region, arg_stack, popped, stack_op, next_op)
             ELSE StepResult("Panic", arg_stack, popped, AbortNode("internal_error"))

(* run_binop_step: retry binop_step while it reduces.                      *)
RECURSIVE run_binop_step(_, _, _, _)

run_binop_step_match(whole_region, next_op, s) ==
    IF s.step = "Push"
    THEN run_binop_step(whole_region, s.arg_stack, s.op_stack, next_op)
    ELSE s

run_binop_step(whole_region, arg_stack, op_stack, next_op) ==
    run_binop_step_match(whole_region, next_op,
                         binop_step(whole_region, arg_stack, op_stack, next_op))

(***************************************************************************)
(* The threaded state of one desugaring pass                               *)
(***************************************************************************)
Ret(out, st) == [out |-> out, st |-> st]

Panic(st) == [st EXCEPT !.aborted = TRUE]

(* Source lines are LineLen bytes long: LineInfo::convert_pos(pos).line    *)
LineLen == 8

convert_pos_line(offset) == offset \div LineLen

LeafTags ==
    {"Float", "Num", "NonBase10Int", "SingleQuote", "AccessorFunction", "Var",
     "Underscore", "MalformedIdent", "MalformedClosure", "PrecedenceConflict",
     "MultipleRecordBuilders", "UnappliedRecordBuilder", "Tag", "OpaqueRef",
     "IngestedFile", "Crash"}

LeafPatternTags ==
    {"Pattern::Identifier", "Pattern::Tag", "Pattern::OpaqueRef",
     "Pattern::NumLiteral", "Pattern::NonBase10Literal", "Pattern::FloatLiteral",
     "Pattern::StrLiteral", "Pattern::Underscore", "Pattern::SingleQuote",
     "Pattern::ListRest", "Pattern::Malformed", "Pattern::MalformedIdent",
     "Pattern::QualifiedIdentifier"}

(* The `loop` of the Apply branch and of record_builder_arg: strip         *)
(* SpaceBefore / SpaceAfter wrappers.                                      *)
RECURSIVE StripSpaces(_)
StripSpaces(value) ==
    IF value.tag \in {"SpaceBefore", "SpaceAfter"}
    THEN StripSpaces(value.expr)
    ELSE value

RECURSIVE StripFieldSpaces(_)
StripFieldSpaces(field) ==
    IF field.tag \in {"BuilderField::SpaceBefore", "BuilderField::SpaceAfter"}
    THEN StripFieldSpaces(field.field)
    ELSE field

HiddenName(label) == "#" \o label

(* record_builder_arg: the record the builder returns, wrapped in one      *)
(* closure per applicative field, and the applicative expressions.         *)
BuilderFieldValue(current) ==
    CASE current.tag = "BuilderField::Value"
            -> [tag |-> "Field::RequiredValue", label |-> current.label,
                expr |-> current.expr]
      [] current.tag = "BuilderField::ApplyValue"
            -> [tag |-> "Field::RequiredValue", label |-> current.label,
                expr |-> Loc(current.label.region,
                             Var("", HiddenName(current.label.value)))]
      [] current.tag = "BuilderField::LabelOnly"
            -> [tag |-> "Field::LabelOnly", label |-> current.label]
      [] OTHER -> [tag |-> "Field::Malformed"]

BuilderRecordField(field) ==
    Loc(field.region, BuilderFieldValue(StripFieldSpaces(field.value)))

ApplyFields(fields) ==
    SelectSeq([i \in 1..Len(fields) |-> StripFieldSpaces(fields[i].value)],
              LAMBDA f : f.tag = "BuilderField::ApplyValue")

(* BuilderClosure wrapping from the first applicative field on, so that   *)
(* the last one is bound outermost.                                        *)
RECURSIVE BuilderClosure_forward(_, _, _)
BuilderClosure_forward(region, apply_field_names, body) ==
    IF apply_field_names = <<>>
    THEN body
    ELSE BuilderClosure_forward(
            region, Tail(apply_field_names),
            Loc(region, [tag |-> "Closure",
                         patterns |-> <<Loc(Head(apply_field_names).region,
                                            [tag |-> "Pattern::Identifier",
                                             ident |-> HiddenName(
                                                Head(apply_field_names).value)])>>,
                         body |-> body]))

RECURSIVE BuilderClosure(_, _, _)
BuilderClosure(region, apply_field_names, body) ==
    IF apply_field_names = <<>>
    THEN body
    ELSE LET n == Len(apply_field_names)
             label == apply_field_names[n]
             arg_pattern == Loc(label.region,
                                [tag |-> "Pattern::Identifier",
                                 ident |-> HiddenName(label.value)])
         IN  BuilderClosure(region, SubSeq(apply_field_names, 1, n - 1),
                            Loc(region, [tag |-> "Closure",
                                         patterns |-> <<arg_pattern>>,
                                         body |-> body]))

RecordBuilderArg(region, record_fields, applied) ==
    [closure |-> BuilderClosure(region,
                                [i \in 1..Len(applied) |-> applied[i].label],
                                Loc(region, [tag |-> "Record", fields |-> record_fields])),
     apply_exprs |-> [i \in 1..Len(applied) |-> applied[i].expr]]

record_builder_arg(region, fields) ==
    RecordBuilderArg(region,
                     [i \in 1..Len(fields) |-> BuilderRecordField(fields[i])],
                     ApplyFields(fields))

(* unwrap_suffixed_expression: "Unwrapped" or the panic of `_ => todo!()`. *)
RECURSIVE unwrap_suffixed_expression(_)
unwrap_suffixed_expression(loc) ==
    CASE loc.value.tag = "Var" -> "Unwrapped"
      [] loc.value.tag = "Defs" ->
            IF \E i \in 1..Len(loc.value.defs) :
                    /\ loc.value.defs[i].tag = "ValueDef::Body"
                    /\ unwrap_suffixed_expression(loc.value.defs[i].expr) = "Panic"
            THEN "Panic"
            ELSE "Unwrapped"
      [] loc.value.tag = "Apply" -> "Unwrapped"
      [] OTHER -> "Panic"

(***************************************************************************)
(* The tree walk.  Every operator takes the threaded state st and returns  *)
(* Ret(out, st').                                                          *)
(***************************************************************************)
RECURSIVE desugar_expr(_, _)
RECURSIVE desugar_exprs(_, _)
RECURSIVE desugar_pattern(_, _)
RECURSIVE desugar_loc_patterns(_, _)
RECURSIVE desugar_field(_, _)
RECURSIVE desugar_fields(_, _)
RECURSIVE desugar_str_segments(_, _)
RECURSIVE desugar_str_lines(_, _)
RECURSIVE desugar_value_def(_, _)
RECURSIVE desugar_defs_node_values(_, _)
RECURSIVE desugar_when_branches(_, _)
RECURSIVE desugar_if_thens(_, _)
RECURSIVE desugar_apply_args(_, _, _, _)
RECURSIVE desugar_builder_applies(_, _, _, _)
RECURSIVE desugar_bin_ops_lefts(_, _, _, _, _)

(* new_items.push(out), the rest of the loop being t                       *)
Pushing(out, t) == Ret(<<out>> \o t.out, t.st)

(* Loc { value: d, region }                                                *)
At(region, d) == Ret(Loc(region, d.out), d.st)

(* The node rebuilt around one desugared child.                            *)
Rebuilt(node, field, d) == Ret([node EXCEPT ![field] = d.out], d.st)

(* desugar_exprs leaving the loop at the first marker it produces.        *)
desugar_exprs_stop(items, st) ==
    IF items = <<>>
    THEN Ret(<<>>, st)
    ELSE LET h == desugar_expr(Head(items), st)
         IN  IF h.out.value.tag \in {"PrecedenceConflict", "MultipleRecordBuilders",
                                     "UnappliedRecordBuilder"}
             THEN Ret(<<h.out>>, h.st)
             ELSE Pushing(h.out, desugar_exprs(Tail(items), h.st))

(* for item in items { new_items.push(desugar_expr(item)) }                *)
desugar_exprs(items, st) ==
    IF items = <<>>
    THEN Ret(<<>>, st)
    ELSE LET h == desugar_expr(Head(items), st)
         IN  Pushing(h.out, desugar_exprs(Tail(items), h.st))

desugar_loc_pattern(loc_pattern, st) ==
    At(loc_pattern.region, desugar_pattern(loc_pattern.value, st))

desugar_loc_patterns(loc_patterns, st) ==
    IF loc_patterns = <<>>
    THEN Ret(<<>>, st)
    ELSE LET h == desugar_loc_pattern(Head(loc_patterns), st)
         IN  Pushing(h.out, desugar_loc_patterns(Tail(loc_patterns), h.st))

desugar_pattern(pattern, st) ==
    CASE pattern.tag \in LeafPatternTags -> Ret(pattern, st)
      [] pattern.tag \in {"Pattern::Apply"} ->
            Rebuilt(pattern, "args", desugar_loc_patterns(pattern.args, st))
      [] pattern.tag \in {"Pattern::RecordDestructure", "Pattern::Tuple",
                          "Pattern::List"} ->
            Rebuilt(pattern, "patterns", desugar_loc_patterns(pattern.patterns, st))
      [] pattern.tag \in {"Pattern::RequiredField", "Pattern::As"} ->
            Rebuilt(pattern, "pattern", desugar_loc_pattern(pattern.pattern, st))
      [] pattern.tag = "Pattern::OptionalField" ->
            Rebuilt(pattern, "expr", desugar_expr(pattern.expr, st))
      [] pattern.tag \in {"Pattern::SpaceBefore", "Pattern::SpaceAfter"} ->
            desugar_pattern(pattern.pattern, st)

desugar_field(field, st) ==
    CASE field.tag \in {"Field::RequiredValue", "Field::OptionalValue"} ->
            Rebuilt(field, "expr", desugar_expr(field.expr, st))
      [] field.tag = "Field::LabelOnly" ->
            Rebuilt([tag |-> "Field::RequiredValue", label |-> field.label,
                     expr |-> Loc(field.label.region, Var("", field.label.value))],
                    "expr",
                    desugar_expr(Loc(field.label.region, Var("", field.label.value)), st))
      [] field.tag \in {"Field::SpaceBefore", "Field::SpaceAfter"} ->
            desugar_field(field.field, st)
      [] field.tag = "Field::Malformed" -> Ret(field, st)

(* for field in fields { allocated.push(Loc { value: desugar_field(..),    *)
(*                                            region: field.region }) }    *)
desugar_fields(fields, st) ==
    IF fields = <<>>
    THEN Ret(<<>>, st)
    ELSE LET h == desugar_field(Head(fields).value, st)
         IN  Pushing(Loc(Head(fields).region, h.out),
                     desugar_fields(Tail(fields), h.st))

desugar_str_segment(segment, st) ==
    IF segment.tag \in {"Segment::DeprecatedInterpolated", "Segment::Interpolated"}
    THEN Rebuilt(segment, "expr", desugar_expr(segment.expr, st))
    ELSE Ret(segment, st)

desugar_str_segments(segments, st) ==
    IF segments = <<>>
    THEN Ret(<<>>, st)
    ELSE LET h == desugar_str_segment(Head(segments), st)
         IN  Pushing(h.out, desugar_str_segments(Tail(segments), h.st))

desugar_str_lines(lines, st) ==
    IF lines = <<>>
    THEN Ret(<<>>, st)
    ELSE LET h == desugar_str_segments(Head(lines), st)
         IN  Pushing(h.out, desugar_str_lines(Tail(lines), h.st))

(* desugar_value_def leaving a statement a statement.                      *)
desugar_value_def_stmt_kept(def, st) ==
    CASE def.tag = "ValueDef::Body" ->
            LET p == desugar_loc_pattern(def.pattern, st)
            IN  Rebuilt([tag |-> "ValueDef::Body", pattern |-> p.out, expr |-> def.expr],
                        "expr", desugar_expr(def.expr, p.st))
      [] def.tag = "ValueDef::Annotation" -> Ret(def, st)
      [] def.tag = "ValueDef::AnnotatedBody" ->
            Rebuilt(def, "body_expr", desugar_expr(def.body_expr, st))
      [] def.tag \in {"ValueDef::Dbg", "ValueDef::Expect", "ValueDef::ExpectFx"} ->
            Rebuilt(def, "condition", desugar_expr(def.condition, st))
      [] def.tag = "ValueDef::Stmt" ->
            Rebuilt(def, "expr", desugar_expr(def.expr, st))

desugar_value_def(def, st) ==
    CASE def.tag = "ValueDef::Body" ->
            LET p == desugar_loc_pattern(def.pattern, st)
            IN  Rebuilt([tag |-> "ValueDef::Body", pattern |-> p.out, expr |-> def.expr],
                        "expr", desugar_expr(def.expr, p.st))
      [] def.tag = "ValueDef::Annotation" -> Ret(def, st)
      [] def.tag = "ValueDef::AnnotatedBody" ->
            Rebuilt(def, "body_expr", desugar_expr(def.body_expr, st))
      [] def.tag \in {"ValueDef::Dbg", "ValueDef::Expect", "ValueDef::ExpectFx"} ->
            Rebuilt(def, "condition", desugar_expr(def.condition, st))
      [] def.tag = "ValueDef::Stmt" ->
            Rebuilt([tag |-> "ValueDef::Body",
                     pattern |-> Loc(def.expr.region,
                                     [tag |-> "Pattern::RecordDestructure",
                                      patterns |-> <<>>]),
                     expr |-> def.expr],
                    "expr", desugar_expr(def.expr, st))

desugar_defs_node_values(value_defs, st) ==
    IF value_defs = <<>>
    THEN Ret(<<>>, st)
    ELSE LET h == desugar_value_def(Head(value_defs), st)
         IN  Pushing(h.out, desugar_defs_node_values(Tail(value_defs), h.st))

(* The Defs branch: the rebuilt node goes through                          *)
(* unwrap_suffixed_expression, whose catch-all arm panics.                 *)
desugar_defs_unwrap(new, st) ==
    IF st.aborted
    THEN Ret(new, st)
    ELSE IF unwrap_suffixed_expression(new) = "Unwrapped"
         THEN Ret(new, st)
         ELSE Ret(AbortNode("todo"), Panic(st))

desugar_defs_ret(region, defs, r) ==
    desugar_defs_unwrap(Loc(region, [tag |-> "Defs", defs |-> defs, ret |-> r.out]), r.st)

desugar_defs(region, loc_ret, d) ==
    desugar_defs_ret(region, d.out, desugar_expr(loc_ret, d.st))

(* The branches of a When: value, then patterns, then the guard.           *)
desugar_when_guard(guard, st) ==
    IF guard.some
    THEN Rebuilt(guard, "expr", desugar_expr(guard.expr, st))
    ELSE Ret(guard, st)

desugar_when_branch(rest, patterns, value, g) ==
    Pushing([patterns |-> patterns, value |-> value, guard |-> g.out],
            desugar_when_branches(rest, g.st))

desugar_when_patterns(branches, value, p) ==
    desugar_when_branch(Tail(branches), p.out, value,
                        desugar_when_guard(Head(branches).guard, p.st))

desugar_when_branches(branches, st) ==
    IF branches = <<>>
    THEN Ret(<<>>, st)
    ELSE LET e == desugar_expr(Head(branches).value, st)
         IN  desugar_when_patterns(branches, e.out,
                                   desugar_loc_patterns(Head(branches).patterns, e.st))

desugar_if_thens(if_thens, st) ==
    IF if_thens = <<>>
    THEN Ret(<<>>, st)
    ELSE LET c == desugar_expr(Head(if_thens)[1], st)
             b == desugar_expr(Head(if_thens)[2], c.st)
         IN  Pushing(<<c.out, b.out>>, desugar_if_thens(Tail(if_thens), b.st))

(* The argument loop of the Apply branch.  builder is the Option           *)
(* builder_apply_exprs; out.multiple says the loop returned the            *)
(* MultipleRecordBuilders marker.                                          *)
NoBuilder == [some |-> FALSE, exprs |-> <<>>]

desugar_apply_args_push(rest, builder, desugared_args, d) ==
    desugar_apply_args(rest, builder, Append(desugared_args, d.out), d.st)

desugar_apply_builder_arg(rest, desugared_args, builder_arg, st) ==
    desugar_apply_args_push(rest, [some |-> TRUE, exprs |-> builder_arg.apply_exprs],
                            desugared_args, desugar_expr(builder_arg.closure, st))

(* desugar_apply_arg letting a later record builder replace an earlier    *)
(* one.                                                                    *)
desugar_apply_arg_last_builder(loc_args, builder, desugared_args, current, st) ==
    IF current.tag = "RecordBuilder"
    THEN desugar_apply_builder_arg(Tail(loc_args), desugared_args,
                                   record_builder_arg(Head(loc_args).region,
                                                      current.fields),
                                   st)
    ELSE desugar_apply_args_push(Tail(loc_args), builder, desugared_args,
                                 desugar_expr(Head(loc_args), st))

desugar_apply_arg(loc_args, builder, desugared_args, current, st) ==
    IF current.tag = "RecordBuilder"
    THEN IF builder.some
         THEN Ret([multiple |-> TRUE, args |-> desugared_args, builder |-> builder], st)
         ELSE desugar_apply_builder_arg(Tail(loc_args), desugared_args,
                                        record_builder_arg(Head(loc_args).region,
                                                           current.fields),
                                        st)
    ELSE desugar_apply_args_push(Tail(loc_args), builder, desugared_args,
                                 desugar_expr(Head(loc_args), st))

desugar_apply_args(loc_args, builder, desugared_args, st) ==
    IF loc_args = <<>>
    THEN Ret([multiple |-> FALSE, args |-> desugared_args, builder |-> builder], st)
    ELSE desugar_apply_arg(loc_args, builder, desugared_args,
                           StripSpaces(Head(loc_args).value), st)

(* desugar_builder_applies wrapping from the last applicative field on.   *)
RECURSIVE desugar_builder_applies_last_first(_, _, _, _)
desugar_builder_applies_last_first(region, apply_exprs, apply, st) ==
    IF apply_exprs = <<>>
    THEN Ret(apply, st)
    ELSE LET d == desugar_expr(apply_exprs[Len(apply_exprs)], st)
         IN  desugar_builder_applies_last_first(
                    region, SubSeq(apply_exprs, 1, Len(apply_exprs) - 1),
                    Loc(region, Apply(d.out, <<apply>>, ViaRecordBuilder)), d.st)

(* for expr in apply_exprs { apply = Apply(desugar_expr(expr), [apply],    *)
(*                                          CalledVia::RecordBuilder) }    *)
desugar_builder_applies(region, apply_exprs, apply, st) ==
    IF apply_exprs = <<>>
    THEN Ret(apply, st)
    ELSE LET d == desugar_expr(Head(apply_exprs), st)
         IN  desugar_builder_applies(region, Tail(apply_exprs),
                                     Loc(region, Apply(d.out, <<apply>>, ViaRecordBuilder)),
                                     d.st)

(* The end of the Apply branch: the function, then the builder's applies.  *)
desugar_apply_fn(region, called_via, a, f) ==
    desugar_builder_applies(region, a.builder.exprs,
                            Loc(region, Apply(f.out, a.args, called_via)), f.st)

desugar_apply(loc, a) ==
    IF a.out.multiple
    THEN Ret(Loc(loc.region, [tag |-> "MultipleRecordBuilders", expr |-> loc]), a.st)
    ELSE desugar_apply_fn(loc.region, loc.value.called_via, a.out,
                          desugar_expr(loc.value.fn, a.st))

(* The first loop of desugar_bin_ops: push each left operand, then run the *)
(* operator against the stacks.                                            *)
desugar_bin_ops_step(whole_region, rest, s, st) ==
    IF s.step = "Skip"
    THEN desugar_bin_ops_lefts(whole_region, rest, s.arg_stack, s.op_stack, st)
    ELSE Ret(s, st)

desugar_bin_ops_left(whole_region, lefts, arg_stack, op_stack, d) ==
    IF d.st.aborted
    THEN Ret(StepResult("Panic", arg_stack, op_stack, AbortNode("operand")), d.st)
    ELSE desugar_bin_ops_step(whole_region, Tail(lefts),
                              run_binop_step(whole_region, Append(arg_stack, d.out),
                                             op_stack, Head(lefts)[2]),
                              d.st)

desugar_bin_ops_lefts(whole_region, lefts, arg_stack, op_stack, st) ==
    IF lefts = <<>>
    THEN Ret(StepResult("Skip", arg_stack, op_stack, AbortNode("none")), st)
    ELSE desugar_bin_ops_left(whole_region, lefts, arg_stack, op_stack,
                              desugar_expr(Head(lefts)[1], st))

(* for (left, loc_op) in arg_stack.zip(op_stack).rev()                     *)
(*     { expr = new_op_call_expr(left, loc_op, expr) }                     *)
RECURSIVE ReduceStacks(_, _, _, _)
ReduceStacks(arg_stack, op_stack, n, expr) ==
    IF n = 0 \/ IsAbort(expr)
    THEN expr
    ELSE ReduceStacks(arg_stack, op_stack, n - 1,
                      new_op_call_expr(arg_stack[n], op_stack[n], expr))

desugar_bin_ops_expr(expr, st) ==
    IF st.aborted \/ IsAbort(expr)
    THEN Ret(expr, Panic(st))
    ELSE Ret(expr, st)

desugar_bin_ops_right(stacks, r) ==
    desugar_bin_ops_expr(ReduceStacks(stacks.arg_stack, stacks.op_stack,
                                      Min(Len(stacks.arg_stack), Len(stacks.op_stack)),
                                      r.out),
                         r.st)

desugar_bin_ops_stacks(right, l) ==
    CASE l.out.step = "Panic" -> Ret(l.out.problem, Panic(l.st))
      [] l.out.step = "Error" -> Ret(l.out.problem, l.st)
      [] OTHER -> desugar_bin_ops_right(l.out, desugar_expr(right, l.st))

desugar_bin_ops(whole_region, lefts, right, st) ==
    desugar_bin_ops_stacks(right,
                           desugar_bin_ops_lefts(whole_region, lefts, <<>>, <<>>, st))

(* The end of the Backpassing branch: the closure becomes the last         *)
(* argument of a producer that is an application, the sole argument of any *)
(* other producer.                                                         *)
backpassing_call_prepend(region, desugared_body, loc_closure) ==
    IF desugared_body.value.tag = "Apply"
    THEN Loc(region, Apply(desugared_body.value.fn,
                           <<loc_closure>> \o desugared_body.value.args,
                           desugared_body.value.called_via))
    ELSE Loc(region, Apply(desugared_body, <<loc_closure>>, ViaSpace))

backpassing_call(region, desugared_body, loc_closure) ==
    IF desugared_body.value.tag = "Apply"
    THEN Loc(region, Apply(desugared_body.value.fn,
                           Append(desugared_body.value.args, loc_closure),
                           desugared_body.value.called_via))
    ELSE Loc(region, Apply(desugared_body, <<loc_closure>>, ViaSpace))

desugar_backpassing(region, desugared_body, desugared_ret, desugared_loc_patterns) ==
    Ret(backpassing_call(region, desugared_body,
                         Loc(region, [tag |-> "Closure",
                                      patterns |-> desugared_loc_patterns.out,
                                      body |-> desugared_ret])),
        desugared_loc_patterns.st)

(* The RecordBuilder branch leaving the builder where it is.               *)
unapplied_record_builder_kept(loc) == loc

(* The RecordBuilder branch: a builder that is not an argument of a call.  *)
unapplied_record_builder(loc) ==
    Loc(loc.region, [tag |-> "UnappliedRecordBuilder", expr |-> loc])

(* The Dbg branch: the condition rendered by Inspect.toStr, the line of    *)
(* the condition from line_info(), which builds LineInfo on first use.     *)
(* line_info() building LineInfo at every Dbg.                             *)
line_info_st_eager(st) ==
    IF st.aborted
    THEN st
    ELSE [st EXCEPT !.computed = TRUE, !.builds = IF @ < 2 THEN @ + 1 ELSE @]

line_info_st(st) ==
    IF st.aborted \/ st.computed
    THEN st
    ELSE [st EXCEPT !.computed = TRUE, !.builds = @ + 1]

desugar_dbg(region, cregion, continuation, c) ==
    Ret(Loc(region, [tag |-> "LowLevelDbg",
                     line |-> convert_pos_line(cregion[1]) + 1,
                     dbg_src |-> cregion,
                     dbg_str |-> Loc(cregion,
                                     Apply(Loc(cregion, Var("Inspect", "toStr")),
                                           <<c.out>>, ViaSpace)),
                     continuation |-> continuation]),
        line_info_st(c.st))

desugar_expr(loc, st) ==
    LET e == loc.value
        region == loc.region
    IN  IF st.aborted THEN Ret(AbortNode("aborted"), st) ELSE
        CASE e.tag \in LeafTags -> Ret(loc, st)
          [] e.tag = "Str" ->
                (CASE e.literal.tag = "PlainLine" -> Ret(loc, st)
                   [] e.literal.tag = "Line" ->
                         At(region,
                            Rebuilt([tag |-> "Str", literal |-> e.literal], "literal",
                                    Rebuilt(e.literal, "segments",
                                            desugar_str_segments(e.literal.segments, st))))
                   [] e.literal.tag = "Block" ->
                         At(region,
                            Rebuilt([tag |-> "Str", literal |-> e.literal], "literal",
                                    Rebuilt(e.literal, "lines",
                                            desugar_str_lines(e.literal.lines, st)))))
          [] e.tag \in {"TupleAccess", "RecordAccess"} ->
                LET d == desugar_expr(Loc(region, e.expr), st)
                IN  Ret(Loc(region, [e EXCEPT !.expr = d.out.value]), d.st)
          [] e.tag \in {"List", "Tuple"} ->
                At(region, Rebuilt(e, "items", desugar_exprs(e.items, st)))
          [] e.tag = "Record" ->
                At(region, Rebuilt(e, "fields", desugar_fields(e.fields, st)))
          [] e.tag = "RecordUpdate" ->
                LET u == desugar_expr(e.update, st)
                IN  At(region, Rebuilt([e EXCEPT !.update = u.out], "fields",
                                       desugar_fields(e.fields, u.st)))
          [] e.tag = "Closure" ->
                LET p == desugar_loc_patterns(e.patterns, st)
                IN  At(region, Rebuilt([e EXCEPT !.patterns = p.out], "body",
                                       desugar_expr(e.body, p.st)))
          [] e.tag = "Backpassing" ->
                LET desugared_body == desugar_expr(e.body, st)
                    desugared_ret == desugar_expr(e.ret, desugared_body.st)
                IN  desugar_backpassing(region, desugared_body.out, desugared_ret.out,
                                        desugar_loc_patterns(e.patterns, desugared_ret.st))
          [] e.tag = "RecordBuilder" -> Ret(unapplied_record_builder(loc), st)
          [] e.tag = "BinOps" -> desugar_bin_ops(region, e.lefts, e.right, st)
          [] e.tag = "Defs" ->
                desugar_defs(region, e.ret, desugar_defs_node_values(e.defs, st))
          [] e.tag = "Apply" ->
                desugar_apply(loc, desugar_apply_args(e.args, NoBuilder, <<>>, st))
          [] e.tag = "When" ->
                LET c == desugar_expr(e.cond, st)
                IN  At(region, Rebuilt([e EXCEPT !.cond = c.out], "branches",
                                       desugar_when_branches(e.branches, c.st)))
          [] e.tag = "UnaryOp" ->
                LET fn_var == IF e.op.value = "Negate"
                              THEN Var("Num", "neg")
                              ELSE Var("Bool", "not")
                    d == desugar_expr(e.arg, st)
                IN  Ret(Loc(region, Apply(Loc(e.op.region, fn_var), <<d.out>>,
                                          ViaUnaryOp(e.op.value))), d.st)
          [] e.tag \in {"SpaceBefore", "SpaceAfter"} ->
                desugar_expr(Loc(region, e.expr), st)
          [] e.tag = "ParensAround" ->
                LET d == desugar_expr(Loc(region, e.expr), st)
                IN  Ret(Loc(region, [tag |-> "ParensAround", expr |-> d.out.value]), d.st)
          [] e.tag = "If" ->
                LET f == desugar_expr(e.final_else, st)
                IN  At(region, Rebuilt([e EXCEPT !.final_else = f.out], "if_thens",
                                       desugar_if_thens(e.if_thens, f.st)))
          [] e.tag = "Expect" ->
                LET c == desugar_expr(e.condition, st)
                IN  At(region, Rebuilt([e EXCEPT !.condition = c.out], "continuation",
                                       desugar_expr(e.continuation, c.st)))
          [] e.tag = "Dbg" ->
                LET k == desugar_expr(e.continuation, st)
                IN  desugar_dbg(region, e.condition.region, k.out,
                                desugar_expr(e.condition, k.st))
          [] e.tag = "LowLevelDbg" -> Ret(AbortNode("unreachable"), Panic(st))

(***************************************************************************)
(* Constraint validation (compiler/can/src/constraint.rs)                  *)
(*                                                                         *)
(* Type terms and Type::variables_detail (roc_types): a function type      *)
(* carries a lambda-set variable, a recursive tag union a recursion        *)
(* variable.                                                               *)
(***************************************************************************)
EmptyRec == [tag |-> "EmptyRec"]

Variable(v) == [tag |-> "Variable", var |-> v]

Function(arg, closure, ret) ==
    [tag |-> "Function", arg |-> arg, closure |-> closure, ret |-> ret]

RecursiveTagUnion(rec, field) ==
    [tag |-> "RecursiveTagUnion", rec |-> rec, field |-> field]

VariableDetail(tv, ls, rv) ==
    [type_variables |-> tv, lambda_set_variables |-> ls, recursion_variables |-> rv]

RECURSIVE variables_detail(_)
variables_detail(typ) ==
    CASE typ.tag = "Variable" -> VariableDetail({typ.var}, {}, {})
      [] typ.tag = "Function" ->
            LET a == variables_detail(typ.arg)
                r == variables_detail(typ.ret)
            IN  VariableDetail(a.type_variables \cup r.type_variables,
                               a.lambda_set_variables \cup r.lambda_set_variables
                                    \cup {typ.closure},
                               a.recursion_variables \cup r.recursion_variables)
      [] typ.tag = "RecursiveTagUnion" ->
            LET f == variables_detail(typ.field)
            IN  VariableDetail(f.type_variables \ {typ.rec}, f.lambda_set_variables,
                               f.recursion_variables \cup {typ.rec})
      [] OTHER -> VariableDetail({}, {}, {})

(* Constraint constructors.  rigid_vars and flex_vars are the sets of the  *)
(* variables in the two vectors.                                           *)
Eq(typ, expected) == [tag |-> "Eq", typ |-> typ, expected |-> expected]

Store(typ, var) == [tag |-> "Store", typ |-> typ, var |-> var]

Lookup(expected) == [tag |-> "Lookup", expected |-> expected]

Pattern(typ, expected) == [tag |-> "Pattern", typ |-> typ, expected |-> expected]

True == [tag |-> "True"]

SaveTheEnvironment == [tag |-> "SaveTheEnvironment"]

Let(rigid_vars, flex_vars, def_types, defs_constraint, ret_constraint) ==
    [tag |-> "Let", rigid_vars |-> rigid_vars, flex_vars |-> flex_vars,
     def_types |-> def_types, defs_constraint |-> defs_constraint,
     ret_constraint |-> ret_constraint]

And(inner) == [tag |-> "And", inner |-> inner]

Declared(rigid_vars, flex_vars) == [rigid_vars |-> rigid_vars, flex_vars |-> flex_vars]

(* accum: the three unbound buckets and the panic, if any, that ended the  *)
(* walk.                                                                   *)
NoPanic == "none"

LambdaSetRigid == "lambda set variable is declared as rigid"

RecursionFlex == "recursion variable is declared as flex"

EmptyAccum ==
    [type_variables |-> {}, lambda_set_variables |-> {}, recursion_variables |-> {},
     panic |-> NoPanic]

(* subtract leaving the two role checks out.                              *)
subtract_deferred(declared, detail, accum) ==
    IF accum.panic # NoPanic
    THEN accum
    ELSE [accum EXCEPT
            !.type_variables = @ \cup
                {var \in detail.type_variables :
                    ~(var \in declared.rigid_vars \/ var \in declared.flex_vars)},
            !.lambda_set_variables = @ \cup
                {var \in detail.lambda_set_variables : var \notin declared.flex_vars},
            !.recursion_variables = @ \cup
                {var \in detail.recursion_variables : var \notin declared.rigid_vars}]

subtract(declared, detail, accum) ==
    LET tv == accum.type_variables \cup
                {var \in detail.type_variables :
                    ~(var \in declared.rigid_vars \/ var \in declared.flex_vars)}
        ls == accum.lambda_set_variables \cup
                {var \in detail.lambda_set_variables : var \notin declared.flex_vars}
        rv == accum.recursion_variables \cup
                {var \in detail.recursion_variables : var \notin declared.rigid_vars}
    IN  IF accum.panic # NoPanic
        THEN accum
        ELSE IF detail.lambda_set_variables \cap declared.rigid_vars # {}
        THEN [accum EXCEPT !.type_variables = tv, !.panic = LambdaSetRigid]
        ELSE IF detail.recursion_variables \cap declared.flex_vars # {}
        THEN [accum EXCEPT !.type_variables = tv, !.lambda_set_variables = ls,
                           !.panic = RecursionFlex]
        ELSE [accum EXCEPT !.type_variables = tv, !.lambda_set_variables = ls,
                           !.recursion_variables = rv]

RECURSIVE validate_help(_, _, _)
RECURSIVE validate_help_inner(_, _, _)
RECURSIVE validate_help_outer_ret(_, _, _)

(* for c in inner { validate_help(c, declared, accum) }                    *)
validate_help_inner(inner, declared, accum) ==
    IF inner = <<>>
    THEN accum
    ELSE validate_help_inner(Tail(inner), declared,
                             validate_help(Head(inner), declared, accum))

(* validate_help checking ret_constraint in the scope the Let inherited.   *)
validate_help_outer_ret(c, declared, accum) ==
    IF accum.panic # NoPanic THEN accum ELSE
    CASE c.tag \in {"True", "SaveTheEnvironment", "Lookup"} -> accum
      [] c.tag = "Store" ->
            LET a == subtract(declared, variables_detail(c.typ), accum)
            IN  IF a.panic = NoPanic /\ c.var \notin declared.flex_vars
                THEN [a EXCEPT !.type_variables = @ \cup {c.var}]
                ELSE a
      [] c.tag \in {"Eq", "Pattern"} ->
            subtract(declared, variables_detail(c.expected),
                     subtract(declared, variables_detail(c.typ), accum))
      [] c.tag = "Let" ->
            LET extended == Declared(declared.rigid_vars \cup c.rigid_vars,
                                     declared.flex_vars \cup c.flex_vars)
            IN  validate_help(c.ret_constraint, declared,
                              validate_help(c.defs_constraint, extended, accum))
      [] c.tag = "And" -> validate_help_inner(c.inner, declared, accum)

(* validate_help taking the expected type of a Lookup as an obligation.    *)
validate_help_lookup(c, declared, accum) ==
    IF accum.panic # NoPanic THEN accum ELSE
    CASE c.tag \in {"True", "SaveTheEnvironment"} -> accum
      [] c.tag = "Lookup" -> subtract(declared, variables_detail(c.expected), accum)
      [] c.tag = "Store" ->
            LET a == subtract(declared, variables_detail(c.typ), accum)
            IN  IF a.panic = NoPanic /\ c.var \notin declared.flex_vars
                THEN [a EXCEPT !.type_variables = @ \cup {c.var}]
                ELSE a
      [] c.tag \in {"Eq", "Pattern"} ->
            subtract(declared, variables_detail(c.expected),
                     subtract(declared, variables_detail(c.typ), accum))
      [] c.tag = "Let" ->
            LET extended == Declared(declared.rigid_vars \cup c.rigid_vars,
                                     declared.flex_vars \cup c.flex_vars)
            IN  validate_help(c.ret_constraint, extended,
                              validate_help(c.defs_constraint, extended, accum))
      [] c.tag = "And" -> validate_help_inner(c.inner, declared, accum)

(* validate_help with the declarations of a Let overriding those of the   *)
(* Lets around it.                                                         *)
validate_help_override(c, declared, accum) ==
    IF accum.panic # NoPanic THEN accum ELSE
    CASE c.tag \in {"True", "SaveTheEnvironment", "Lookup"} -> accum
      [] c.tag = "Store" ->
            LET a == subtract(declared, variables_detail(c.typ), accum)
            IN  IF a.panic = NoPanic /\ c.var \notin declared.flex_vars
                THEN [a EXCEPT !.type_variables = @ \cup {c.var}]
                ELSE a
      [] c.tag \in {"Eq", "Pattern"} ->
            subtract(declared, variables_detail(c.expected),
                     subtract(declared, variables_detail(c.typ), accum))
      [] c.tag = "Let" ->
            LET extended ==
                    Declared((declared.rigid_vars \ c.flex_vars) \cup c.rigid_vars,
                             (declared.flex_vars \ c.rigid_vars) \cup c.flex_vars)
            IN  validate_help(c.ret_constraint, extended,
                              validate_help(c.defs_constraint, extended, accum))
      [] c.tag = "And" -> validate_help_inner(c.inner, declared, accum)

validate_help(c, declared, accum) ==
    IF accum.panic # NoPanic THEN accum ELSE
    CASE c.tag \in {"True", "SaveTheEnvironment", "Lookup"} -> accum
      [] c.tag = "Store" ->
            LET a == subtract(declared, variables_detail(c.typ), accum)
            IN  IF a.panic = NoPanic /\ c.var \notin declared.flex_vars
                THEN [a EXCEPT !.type_variables = @ \cup {c.var}]
                ELSE a
      [] c.tag \in {"Eq", "Pattern"} ->
            subtract(declared, variables_detail(c.expected),
                     subtract(declared, variables_detail(c.typ), accum))
      [] c.tag = "Let" ->
            LET extended == Declared(declared.rigid_vars \cup c.rigid_vars,
                                     declared.flex_vars \cup c.flex_vars)
            IN  validate_help(c.ret_constraint, extended,
                              validate_help(c.defs_constraint, extended, accum))
      [] c.tag = "And" -> validate_help_inner(c.inner, declared, accum)

(* Constraint::validate: true, or the panic that ended it.                 *)
Outcome(status, why, unbound) == [status |-> status, why |-> why, unbound |-> unbound]

NoOutcome == Outcome("none", NoPanic, EmptyAccum)

(* validate without the check of the type-variable bucket.                *)
validate_lenient(c) ==
    LET unbound == validate_help(c, Declared({}, {}), EmptyAccum)
    IN  IF unbound.panic # NoPanic
        THEN Outcome("panic", unbound.panic, unbound)
        ELSE IF unbound.lambda_set_variables # {}
        THEN Outcome("panic", "found unbound lambda set variables", unbound)
        ELSE IF unbound.recursion_variables # {}
        THEN Outcome("panic", "found unbound recursion variables", unbound)
        ELSE Outcome("true", NoPanic, unbound)

(* validate without the check of the recursion-variable bucket.           *)
validate_no_recursion(c) ==
    LET unbound == validate_help(c, Declared({}, {}), EmptyAccum)
    IN  IF unbound.panic # NoPanic
        THEN Outcome("panic", unbound.panic, unbound)
        ELSE IF unbound.type_variables # {}
        THEN Outcome("panic", "found unbound type variables", unbound)
        ELSE IF unbound.lambda_set_variables # {}
        THEN Outcome("panic", "found unbound lambda set variables", unbound)
        ELSE Outcome("true", NoPanic, unbound)

validate(c) ==
    LET unbound == validate_help(c, Declared({}, {}), EmptyAccum)
    IN  IF unbound.panic # NoPanic
        THEN Outcome("panic", unbound.panic, unbound)
        ELSE IF unbound.type_variables # {}
        THEN Outcome("panic", "found unbound type variables", unbound)
        ELSE IF unbound.lambda_set_variables # {}
        THEN Outcome("panic", "found unbound lambda set variables", unbound)
        ELSE IF unbound.recursion_variables # {}
        THEN Outcome("panic", "found unbound recursion variables", unbound)
        ELSE Outcome("true", NoPanic, unbound)

(***************************************************************************)
(* Surface trees handed to desugar_expr                                    *)
(***************************************************************************)
MaxOps == 3

ChainOps == {"Star", "Plus", "Minus", "Equals", "And", "Pizza"}

OperandNames == <<"a", "b", "c", "d", "e", "f">>

V(name, s) == Loc(<<s, s + 1>>, Var("", name))

Num(s) == Loc(<<s, s + 1>>, [tag |-> "Num", v |-> "1"])

PlainStr(s) == Loc(<<s, s + 1>>, [tag |-> "Str", literal |-> [tag |-> "PlainLine"]])

Ident(name, s) == Loc(<<s, s + 1>>, [tag |-> "Pattern::Identifier", ident |-> name])

LocOp(op, s) == Loc(<<s, s + 1>>, op)

Call(fn, args, s) == Loc(<<s, s + 1 + Len(args)>>, Apply(fn, args, ViaSpace))

Spaced(loc) == Loc(loc.region, [tag |-> "SpaceBefore", expr |-> loc.value])

Parens(loc) == Loc(loc.region, [tag |-> "ParensAround", expr |-> loc.value])

BinOps(lefts, right) ==
    Loc(span_across(lefts[1][1].region, right.region),
        [tag |-> "BinOps", lefts |-> lefts, right |-> right])

(* The right-most operand of a chain, starting at offset s.                *)
RightKinds == {"var", "call1", "call2", "parens", "neg", "dbg"}

RightOperand(kind, s) ==
    CASE kind = "var" -> V("r", s)
      [] kind = "call1" -> Call(V("g", s), <<V("y", s + 1)>>, s)
      [] kind = "call2" -> Call(V("g", s), <<V("y", s + 1), V("z", s + 2)>>, s)
      [] kind = "parens" -> Parens(Call(V("g", s), <<V("y", s + 1)>>, s))
      [] kind = "neg" ->
            Loc(<<s, s + 2>>, [tag |-> "UnaryOp", arg |-> V("y", s + 1),
                               op |-> LocOp("Negate", s)])
      [] kind = "dbg" ->
            Loc(<<s, s + 2>>, [tag |-> "Dbg", condition |-> V("y", s),
                               continuation |-> V("z", s + 1)])

(* `a op1 b op2 c ...`: operand i starts at 4(i-1), operator i at 4(i-1)+2 *)
Chain(ops, kind) ==
    BinOps([i \in 1..Len(ops) |->
                <<V(OperandNames[i], 4 * (i - 1)), LocOp(ops[i], 4 * (i - 1) + 2)>>],
           RightOperand(kind, 4 * Len(ops)))

ChainInputs ==
    UNION {{Chain(ops, kind) : ops \in [1..n -> ChainOps], kind \in RightKinds}
           : n \in 1..MaxOps}

Label(name, s) == Loc(<<s, s + 1>>, name)

ValueField(name, expr, s) ==
    Loc(<<s, s + 3>>, [tag |-> "BuilderField::Value", label |-> Label(name, s),
                       expr |-> expr])

ApplyField(name, expr, s) ==
    Loc(<<s, s + 3>>, [tag |-> "BuilderField::ApplyValue", label |-> Label(name, s),
                       expr |-> expr])

SpacedField(field) ==
    Loc(field.region, [tag |-> "BuilderField::SpaceAfter", field |-> field.value])

(* A record builder with k applicative fields, starting at offset s.       *)
Builder(k, s) ==
    Loc(<<s, s + 9>>,
        [tag |-> "RecordBuilder",
         fields |->
            CASE k = 0 -> <<ValueField("z", Num(s + 2), s)>>
              [] k = 1 -> <<SpacedField(ApplyField("x", V("p", s + 2), s)),
                            ValueField("z", Num(s + 5), s + 3)>>
              [] OTHER -> <<ApplyField("x", V("p", s + 2), s),
                            ValueField("z", Num(s + 5), s + 3),
                            ApplyField("y", Chain(<<"Plus">>, "var"), s + 6)>>])

Closure(patterns, body, s) ==
    Loc(<<s, body.region[2]>>, [tag |-> "Closure", patterns |-> patterns, body |-> body])

EmptyRecord(s) == Loc(<<s, s + 2>>, [tag |-> "Record", fields |-> <<>>])

EmptyList(s) == Loc(<<s, s + 2>>, [tag |-> "List", items |-> <<>>])

DbgExpr(cond, cont) ==
    Loc(span_across(cond.region, cont.region),
        [tag |-> "Dbg", condition |-> cond, continuation |-> cont])

If(cond, then, else) ==
    Loc(span_across(cond.region, else.region),
        [tag |-> "If", if_thens |-> <<<<cond, then>>>>, final_else |-> else])

(* `{ x ? a + r }`: a pattern that holds an expression.                    *)
OptionalFieldPattern(s) ==
    Loc(<<s, s + 9>>,
        [tag |-> "Pattern::RecordDestructure",
         patterns |-> <<Loc(<<s, s + 9>>,
                            [tag |-> "Pattern::OptionalField", name |-> "x",
                             expr |-> Chain(<<"Plus">>, "var")])>>])

(* Small expressions used as children of the other inputs.                 *)
SubExprs(s) ==
    {V("x", s), Num(s), PlainStr(s), Spaced(V("x", s)),
     Call(V("f", s), <<V("x", s + 1)>>, s),
     Chain(<<"Plus">>, "var"), Chain(<<"Equals", "Equals">>, "var"),
     Builder(1, s), DbgExpr(V("x", s), V("k", s + 1)),
     Closure(<<Ident("x", s)>>, Chain(<<"Minus", "Minus">>, "var"), s),
     Call(V("f", s), <<Builder(0, s + 1), Spaced(Builder(0, s + 5))>>, s)}

Producers(s) ==
    {V("compute", s), Num(s),
     Call(V("runEffect", s), <<V("arg1", s + 1)>>, s),
     Call(V("runEffect", s), <<V("arg1", s + 1), V("arg2", s + 2)>>, s),
     Parens(Call(V("foo", s), <<V("bar", s + 1)>>, s)),
     Spaced(Call(V("foo", s), <<V("bar", s + 1)>>, s)),
     Chain(<<"Pizza">>, "var"), Chain(<<"Pizza">>, "call1"), Chain(<<"Plus">>, "var"),
     Chain(<<"Equals", "Equals">>, "var"),
     If(V("b", s), V("t", s + 1), V("e", s + 2)),
     Builder(1, s),
     Loc(<<s, s + 2>>, [tag |-> "UnaryOp", arg |-> V("y", s + 1),
                        op |-> LocOp("Not", s)])}

BackpassingPatterns(s) ==
    {<<Ident("x", s)>>, <<Ident("x", s), Ident("y", s + 1)>>,
     <<OptionalFieldPattern(s)>>,
     <<Loc(<<s, s + 1>>, [tag |-> "Pattern::SpaceBefore",
                          pattern |-> Ident("x", s).value])>>}

BackpassingInputs ==
    {Loc(<<0, 40>>, [tag |-> "Backpassing", patterns |-> p, body |-> b, ret |-> r])
        : p \in BackpassingPatterns(0), b \in Producers(10),
          r \in {V("useX", 30), Chain(<<"Plus">>, "var"), Spaced(Num(30))}}

MaxDefs == 2

Body(pattern, expr) == [tag |-> "ValueDef::Body", pattern |-> pattern, expr |-> expr]

(* The value definitions of a block; definition i starts at offset s.      *)
ValueDefs(s) ==
    {Body(Ident("n", s), Num(s + 2)),
     Body(Ident("str", s), PlainStr(s + 2)),
     Body(Ident("foo", s), EmptyRecord(s + 2)),
     Body(Ident("l", s), EmptyList(s + 2)),
     Body(Ident("fn", s),
          Closure(<<Loc(<<s + 2, s + 3>>, [tag |-> "Pattern::Underscore"])>>,
                  EmptyRecord(s + 4), s + 2)),
     Body(Ident("b", s), V("a", s + 2)),
     Body(Ident("c", s), Call(V("f", s + 2), <<V("x", s + 3)>>, s + 2)),
     Body(OptionalFieldPattern(s), Chain(<<"Plus", "Star">>, "var")),
     [tag |-> "ValueDef::Stmt", expr |-> Call(V("f", s), <<V("x", s + 1)>>, s)],
     [tag |-> "ValueDef::Stmt", expr |-> Spaced(Num(s))],
     [tag |-> "ValueDef::Annotation"],
     [tag |-> "ValueDef::AnnotatedBody", body_pattern |-> OptionalFieldPattern(s),
      body_expr |-> Chain(<<"Plus">>, "var")],
     [tag |-> "ValueDef::AnnotatedBody", body_pattern |-> Ident("n", s),
      body_expr |-> Num(s + 2)],
     [tag |-> "ValueDef::Dbg", condition |-> Chain(<<"Plus">>, "var")],
     [tag |-> "ValueDef::Expect", condition |-> Chain(<<"Equals">>, "var")]}

(* The sequences of n definitions, definition i drawn from                 *)
(* ValueDefs(10 * (i - 1)).                                                *)
RECURSIVE ValueDefSeqs(_)
ValueDefSeqs(n) ==
    IF n = 0
    THEN {<<>>}
    ELSE {Append(ds, d) : ds \in ValueDefSeqs(n - 1), d \in ValueDefs(10 * (n - 1))}

DefsInputs ==
    UNION {{Loc(<<0, 10 * n + 1>>, [tag |-> "Defs", defs |-> ds, ret |-> r])
                : ds \in ValueDefSeqs(n),
                  r \in {V("str", 10 * n), Spaced(Num(10 * n))}}
           : n \in 1..MaxDefs}

MaxArgs == 3

ArgExprs(s) ==
    {V("x", s), Spaced(Builder(1, s)), Builder(2, s), Builder(0, s),
     Chain(<<"Equals", "Equals">>, "var"), DbgExpr(V("x", s), V("k", s + 1))}

(* The sequences of n arguments, argument i drawn from ArgExprs(10 * i).  *)
RECURSIVE ArgSeqs(_)
ArgSeqs(n) ==
    IF n = 0
    THEN {<<>>}
    ELSE {Append(as, a) : as \in ArgSeqs(n - 1), a \in ArgExprs(10 * n)}

ApplyInputs ==
    UNION {{Loc(<<0, 10 * n + 10>>, Apply(V("f", 0), args, ViaSpace))
                : args \in ArgSeqs(n)}
           : n \in 1..MaxArgs}

Field(name, expr, s) ==
    Loc(<<s, s + 3>>, [tag |-> "Field::RequiredValue", label |-> Label(name, s),
                       expr |-> expr])

NoGuard == [some |-> FALSE, expr |-> Num(0)]

(* One node of every other shape around one or two small expressions.      *)
ContainerInputs ==
    UNION {{Loc(<<0, 30>>, [tag |-> "List", items |-> <<x, y>>]),
            Loc(<<0, 30>>, [tag |-> "Tuple", items |-> <<x, y>>]),
            Loc(<<0, 30>>, [tag |-> "Record",
                            fields |-> <<Field("p", x, 0),
                                         Loc(<<10, 11>>, [tag |-> "Field::LabelOnly",
                                                          label |-> Label("q", 10)]),
                                         Loc(<<20, 23>>,
                                             [tag |-> "Field::SpaceBefore",
                                              field |-> Field("r", y, 20).value])>>]),
            Loc(<<0, 30>>, [tag |-> "RecordUpdate", update |-> Spaced(V("rec", 0)),
                            fields |-> <<Field("p", x, 0), Field("r", y, 20)>>]),
            If(x, y, V("e", 30)), If(V("b", 0), x, y),
            Loc(<<0, 30>>, [tag |-> "When", cond |-> x,
                            branches |-> <<[patterns |-> <<Ident("p", 10)>>, value |-> y,
                                            guard |-> NoGuard],
                                           [patterns |-> <<OptionalFieldPattern(20)>>,
                                            value |-> V("v", 25),
                                            guard |-> [some |-> TRUE, expr |-> y]]>>]),
            Loc(<<0, 30>>, [tag |-> "Expect", condition |-> x, continuation |-> y]),
            DbgExpr(x, y),
            Loc(<<0, 30>>, [tag |-> "Str",
                            literal |-> [tag |-> "Line",
                                         segments |-> <<[tag |-> "Segment::Plaintext"],
                                                        [tag |-> "Segment::Interpolated",
                                                         expr |-> x]>>]]),
            Loc(<<0, 30>>, [tag |-> "Str",
                            literal |-> [tag |-> "Block",
                                         lines |-> <<<<[tag |-> "Segment::Interpolated",
                                                        expr |-> x]>>,
                                                     <<[tag |-> "Segment::Interpolated",
                                                        expr |-> y]>>>>]]),
            Closure(<<Ident("p", 0), OptionalFieldPattern(10)>>, y, 0)}
           : x \in SubExprs(0), y \in SubExprs(20)}
    \cup
    UNION {{x, Parens(x), Spaced(x),
            Loc(x.region, [tag |-> "SpaceAfter", expr |-> Spaced(x).value]),
            Loc(x.region, [tag |-> "RecordAccess", expr |-> x.value, paths |-> "field"]),
            Loc(x.region, [tag |-> "TupleAccess", expr |-> x.value, paths |-> "0"]),
            Loc(<<0, 30>>, [tag |-> "UnaryOp", arg |-> x, op |-> LocOp("Negate", 0)]),
            Loc(<<0, 30>>, [tag |-> "UnaryOp", arg |-> x, op |-> LocOp("Not", 0)])}
           : x \in SubExprs(10)}

(* Shapes outside the contract: an internal-only node, a structural        *)
(* operator in a chain.                                                    *)
LowLevelDbgNode(s) ==
    Loc(<<s, s + 1>>, [tag |-> "LowLevelDbg", line |-> 1, dbg_src |-> <<s, s + 1>>,
                       dbg_str |-> V("x", s), continuation |-> V("k", s)])

OutOfContractInputs ==
    {LowLevelDbgNode(0),
     Loc(<<0, 30>>, [tag |-> "List", items |-> <<LowLevelDbgNode(0), V("x", 10)>>]),
     Chain(<<"Assignment">>, "var"), Chain(<<"Plus", "Backpassing">>, "var"),
     Chain(<<"IsAliasType", "Plus">>, "var")}

(***************************************************************************)
(* The desugaring pass as a state machine: the caller hands one tree after *)
(* another to desugar_expr, with the same line_info.                       *)
(***************************************************************************)
NoExpr == Loc(NoRegion, [tag |-> "None"])

NoConstraint == [tag |-> "None"]

NoOp == Loc(NoRegion, "None")

Init ==
    /\ pc = "idle"
    /\ loc_expr = NoExpr
    /\ line_info = [computed |-> FALSE, builds |-> 0]
    /\ result = NoExpr
    /\ constraint = NoConstraint
    /\ outcome = NoOutcome
    /\ args_stack = <<>>
    /\ ops_stack = <<>>
    /\ pairs = <<>>
    /\ incoming_op = NoOp
    /\ unwrap_stack = <<>>

(* desugar_expr(arena, loc_expr, src, line_info, module_path)              *)
Returning(e, d) ==
    /\ loc_expr' = e
    /\ pc' = IF d.st.aborted THEN "aborted" ELSE "returned"
    /\ result' = IF d.st.aborted THEN NoExpr ELSE d.out
    /\ line_info' = [computed |-> d.st.computed, builds |-> d.st.builds]

(* The trees the callers hand over, by the construct they exercise.        *)
InputFamilies == {"Chain", "Backpassing", "Defs", "Apply", "Container", "OutOfContract"}

InputFamily(family) ==
    CASE family = "Chain" -> ChainInputs
      [] family = "Backpassing" -> BackpassingInputs
      [] family = "Defs" -> DefsInputs
      [] family = "Apply" -> ApplyInputs
      [] family = "Container" -> ContainerInputs
      [] family = "OutOfContract" -> OutOfContractInputs

DesugarExpr ==
    /\ pc = "idle"
    /\ \E family \in InputFamilies :
          \E e \in InputFamily(family) :
              Returning(e, desugar_expr(e, [computed |-> line_info.computed,
                                            builds |-> line_info.builds,
                                            aborted |-> FALSE]))
    /\ UNCHANGED <<constraint, outcome>>
    /\ UNCHANGED locals

(* The caller takes the tree and goes on to the next expression.           *)
TakeResult ==
    /\ pc = "returned"
    /\ pc' = "idle"
    /\ loc_expr' = NoExpr
    /\ result' = NoExpr
    /\ UNCHANGED <<line_info, constraint, outcome>>
    /\ UNCHANGED locals

Next == DesugarExpr \/ TakeResult

Spec == Init /\ [][Next]_vars

TypeOK ==
    /\ pc \in {"idle", "returned", "aborted", "validated", "panicked", "built",
             "defs_done", "scan", "step", "unwrap"}
    /\ line_info.computed \in BOOLEAN

(***************************************************************************)
(* The tags of all the nodes of a tree: expressions, patterns, fields and  *)
(* definitions, the payloads of marker nodes included.  An operator of a   *)
(* chain contributes "BinOp::" followed by its name.                       *)
(***************************************************************************)
RECURSIVE TagsOfExpr(_)
RECURSIVE TagsOfPattern(_)
RECURSIVE TagsOfField(_)
RECURSIVE TagsOfBuilderField(_)

TagsOfExprs(locs) == UNION {TagsOfExpr(locs[i].value) : i \in 1..Len(locs)}

TagsOfPatterns(locs) == UNION {TagsOfPattern(locs[i].value) : i \in 1..Len(locs)}

TagsOfFields(locs) == UNION {TagsOfField(locs[i].value) : i \in 1..Len(locs)}

TagsOfSegments(segments) ==
    UNION {IF segments[i].tag \in {"Segment::Interpolated",
                                   "Segment::DeprecatedInterpolated"}
           THEN TagsOfExpr(segments[i].expr.value)
           ELSE {} : i \in 1..Len(segments)}

TagsOfDef(def) ==
    {def.tag} \cup
    CASE def.tag = "ValueDef::Body" ->
            TagsOfPattern(def.pattern.value) \cup TagsOfExpr(def.expr.value)
      [] def.tag = "ValueDef::AnnotatedBody" ->
            TagsOfPattern(def.body_pattern.value) \cup TagsOfExpr(def.body_expr.value)
      [] def.tag \in {"ValueDef::Dbg", "ValueDef::Expect", "ValueDef::ExpectFx"} ->
            TagsOfExpr(def.condition.value)
      [] def.tag = "ValueDef::Stmt" -> TagsOfExpr(def.expr.value)
      [] OTHER -> {}

TagsOfPattern(p) ==
    {p.tag} \cup
    CASE p.tag = "Pattern::Apply" -> TagsOfPatterns(p.args)
      [] p.tag \in {"Pattern::RecordDestructure", "Pattern::Tuple", "Pattern::List"} ->
            TagsOfPatterns(p.patterns)
      [] p.tag \in {"Pattern::RequiredField", "Pattern::As"} ->
            TagsOfPattern(p.pattern.value)
      [] p.tag = "Pattern::OptionalField" -> TagsOfExpr(p.expr.value)
      [] p.tag \in {"Pattern::SpaceBefore", "Pattern::SpaceAfter"} ->
            TagsOfPattern(p.pattern)
      [] OTHER -> {}

TagsOfField(f) ==
    {f.tag} \cup
    CASE f.tag \in {"Field::RequiredValue", "Field::OptionalValue"} ->
            TagsOfExpr(f.expr.value)
      [] f.tag \in {"Field::SpaceBefore", "Field::SpaceAfter"} -> TagsOfField(f.field)
      [] OTHER -> {}

TagsOfBuilderField(f) ==
    {f.tag} \cup
    CASE f.tag \in {"BuilderField::Value", "BuilderField::ApplyValue"} ->
            TagsOfExpr(f.expr.value)
      [] f.tag \in {"BuilderField::SpaceBefore", "BuilderField::SpaceAfter"} ->
            TagsOfBuilderField(f.field)
      [] OTHER -> {}

TagsOfExpr(e) ==
    {e.tag} \cup
    CASE e.tag \in {"PrecedenceConflict", "MultipleRecordBuilders",
                    "UnappliedRecordBuilder"} -> TagsOfExpr(e.expr.value)
      [] e.tag = "Str" ->
            (CASE e.literal.tag = "Line" -> TagsOfSegments(e.literal.segments)
               [] e.literal.tag = "Block" ->
                     UNION {TagsOfSegments(e.literal.lines[i])
                            : i \in 1..Len(e.literal.lines)}
               [] OTHER -> {})
      [] e.tag \in {"TupleAccess", "RecordAccess", "SpaceBefore", "SpaceAfter",
                    "ParensAround"} -> TagsOfExpr(e.expr)
      [] e.tag \in {"List", "Tuple"} -> TagsOfExprs(e.items)
      [] e.tag = "Record" -> TagsOfFields(e.fields)
      [] e.tag = "RecordUpdate" -> TagsOfExpr(e.update.value) \cup TagsOfFields(e.fields)
      [] e.tag = "Closure" -> TagsOfPatterns(e.patterns) \cup TagsOfExpr(e.body.value)
      [] e.tag = "Backpassing" ->
            TagsOfPatterns(e.patterns) \cup TagsOfExpr(e.body.value)
                \cup TagsOfExpr(e.ret.value)
      [] e.tag = "RecordBuilder" ->
            UNION {TagsOfBuilderField(e.fields[i].value) : i \in 1..Len(e.fields)}
      [] e.tag = "BinOps" ->
            UNION {TagsOfExpr(e.lefts[i][1].value) \cup {"BinOp::" \o e.lefts[i][2].value}
                   : i \in 1..Len(e.lefts)} \cup TagsOfExpr(e.right.value)
      [] e.tag = "Defs" ->
            UNION {TagsOfDef(e.defs[i]) : i \in 1..Len(e.defs)}
                \cup TagsOfExpr(e.ret.value)
      [] e.tag = "Apply" -> TagsOfExpr(e.fn.value) \cup TagsOfExprs(e.args)
      [] e.tag = "When" ->
            TagsOfExpr(e.cond.value) \cup
            UNION {TagsOfPatterns(e.branches[i].patterns)
                       \cup TagsOfExpr(e.branches[i].value.value)
                       \cup (IF e.branches[i].guard.some
                             THEN TagsOfExpr(e.branches[i].guard.expr.value)
                             ELSE {})
                   : i \in 1..Len(e.branches)}
      [] e.tag = "UnaryOp" -> TagsOfExpr(e.arg.value)
      [] e.tag = "If" ->
            UNION {TagsOfExpr(e.if_thens[i][1].value) \cup TagsOfExpr(e.if_thens[i][2].value)
                   : i \in 1..Len(e.if_thens)} \cup TagsOfExpr(e.final_else.value)
      [] e.tag \in {"Expect", "Dbg"} ->
            TagsOfExpr(e.condition.value) \cup TagsOfExpr(e.continuation.value)
      [] e.tag = "LowLevelDbg" ->
            TagsOfExpr(e.dbg_str.value) \cup TagsOfExpr(e.continuation.value)
      [] OTHER -> {}

DerivedSyntaxTags ==
    {"BinOps", "Backpassing", "RecordBuilder", "SpaceBefore", "SpaceAfter", "UnaryOp"}

StructuralOpTags == {"BinOp::" \o op : op \in StructuralOps}

(* The result of desugaring a subtree on its own.                          *)
Desugared(loc) ==
    desugar_expr(loc, [computed |-> TRUE, builds |-> 0, aborted |-> FALSE]).out

DesugaredPatterns(patterns) ==
    desugar_loc_patterns(patterns, [computed |-> TRUE, builds |-> 0,
                                    aborted |-> FALSE]).out

(***************************************************************************)
(* Properties of the desugaring pass                                       *)
(***************************************************************************)
Called == pc \in {"returned", "aborted"}

IsChain == Called /\ loc_expr.value.tag = "BinOps"

ChainLen == Len(loc_expr.value.lefts)

ChainOp(i) == loc_expr.value.lefts[i][2]

ChainOperand(i) ==
    IF i <= ChainLen
    THEN Desugared(loc_expr.value.lefts[i][1])
    ELSE Desugared(loc_expr.value.right)

TableOps == {op \in ChainOps \cup {"Caret", "Slash", "DoubleSlash", "Percent",
                                   "NotEquals", "LessThan", "GreaterThan",
                                   "LessThanOrEq", "GreaterThanOrEq", "Or"} :
                op # "Pizza"}

(* node is `left op right`: the table function of op applied to the two.   *)
IsOpApp(node, op, left, right) ==
    /\ node.value.tag = "Apply"
    /\ node.value.called_via = ViaBinOp(op)
    /\ node.value.fn.value = Var(binop_to_function(op)[1], binop_to_function(op)[2])
    /\ node.value.args = <<left, right>>

InContract(loc) ==
    /\ "LowLevelDbg" \notin TagsOfExpr(loc.value)
    /\ TagsOfExpr(loc.value) \cap StructuralOpTags = {}

(* C1: desugar_expr returns (never aborts) for every tree that contains no *)
(* LowLevelDbg node and no structural operator in a chain; in particular   *)
(* for definition blocks whose bodies are literals, strings, records,      *)
(* lists or closures.                                                      *)
C1_Total == (Called /\ InContract(loc_expr)) => pc = "returned"

(* C2: in `a op1 b op2 c` with two non-pipe operators of different         *)
(* precedence the operator of higher precedence binds its operands first:  *)
(* op1(a, op2(b, c)) when op2 is higher, op2(op1(a, b), c) when lower.     *)
C2_Precedence ==
    (/\ IsChain
     /\ ChainLen = 2
     /\ ChainOp(1).value \in TableOps
     /\ ChainOp(2).value \in TableOps
     /\ precedence(ChainOp(1).value) # precedence(ChainOp(2).value))
    => /\ pc = "returned"
       /\ IF precedence(ChainOp(2).value) > precedence(ChainOp(1).value)
          THEN /\ result.value.tag = "Apply"
               /\ Len(result.value.args) = 2
               /\ IsOpApp(result, ChainOp(1).value, ChainOperand(1),
                          result.value.args[2])
               /\ IsOpApp(result.value.args[2], ChainOp(2).value, ChainOperand(2),
                          ChainOperand(3))
          ELSE /\ result.value.tag = "Apply"
               /\ Len(result.value.args) = 2
               /\ IsOpApp(result, ChainOp(2).value, result.value.args[1],
                          ChainOperand(3))
               /\ IsOpApp(result.value.args[1], ChainOp(1).value, ChainOperand(1),
                          ChainOperand(2))

C2_Witness ==
    /\ pc = "returned"
    /\ loc_expr = Chain(<<"Plus", "Star">>, "var")
    /\ result.value.called_via = ViaBinOp("Plus")
    /\ result.value.args[2].value.called_via = ViaBinOp("Star")

(* C3: a chain of two or more operators of one precedence, all             *)
(* left-associative, is nested to the left: ((a op b) op c) ...            *)
RECURSIVE LeftNested(_)
LeftNested(k) ==
    IF k = 0
    THEN ChainOperand(1)
    ELSE new_op_call_expr(LeftNested(k - 1), ChainOp(k), ChainOperand(k + 1))

C3_LeftAssociative ==
    (/\ IsChain
     /\ ChainLen >= 2
     /\ \A i \in 1..ChainLen :
            /\ associativity(ChainOp(i).value) = "LeftAssociative"
            /\ precedence(ChainOp(i).value) = precedence(ChainOp(1).value))
    => /\ pc = "returned"
       /\ result = LeftNested(ChainLen)

C3_Witness ==
    /\ pc = "returned"
    /\ loc_expr = Chain(<<"Minus", "Minus">>, "var")
    /\ IsOpApp(result, "Minus", result.value.args[1], ChainOperand(3))
    /\ IsOpApp(result.value.args[1], "Minus", ChainOperand(1), ChainOperand(2))

(* C4: when an operator meets an earlier non-associative operator of the   *)
(* same precedence with only operators of higher precedence in between,    *)
(* the whole chain becomes one PrecedenceConflict marker that records the  *)
(* earlier operator as binop1, the later as binop2, each with its start    *)
(* position, and the region of the whole chain.                            *)
Meets(i, j) ==
    /\ i < j
    /\ associativity(ChainOp(i).value) = "NonAssociative"
    /\ associativity(ChainOp(j).value) = "NonAssociative"
    /\ \A k \in (i + 1)..(j - 1) :
            precedence(ChainOp(k).value) > precedence(ChainOp(j).value)

FirstMeeting(i, j) ==
    /\ Meets(i, j)
    /\ \A i2 \in 1..ChainLen, j2 \in 1..ChainLen : Meets(i2, j2) => j <= j2

C4_NonAssociativeConflict ==
    (/\ IsChain
     /\ \A i \in 1..ChainLen : ChainOp(i).value \notin StructuralOps)
    => \A i \in 1..ChainLen, j \in 1..ChainLen :
          FirstMeeting(i, j)
          => /\ pc = "returned"
             /\ result.value.tag = "PrecedenceConflict"
             /\ result.value.binop1 = ChainOp(i).value
             /\ result.value.binop1_position = ChainOp(i).region[1]
             /\ result.value.binop2 = ChainOp(j).value
             /\ result.value.binop2_position = ChainOp(j).region[1]
             /\ result.value.whole_region = loc_expr.region

C4_Witness ==
    /\ pc = "returned"
    /\ loc_expr = Chain(<<"Plus", "Equals", "Equals">>, "var")
    /\ result.value.tag = "PrecedenceConflict"
    /\ result.value.binop1_position = 6
    /\ result.value.binop2_position = 10

(* C5: `x |> f` is f applied to x alone when the desugared f is not an     *)
(* application; when it is an application of g to y1..yn the result is g   *)
(* applied to (x, y1, .., yn).                                             *)
C5_PipeSplicing ==
    (IsChain /\ ChainLen = 1 /\ ChainOp(1).value = "Pizza")
    => /\ pc = "returned"
       /\ result.value.tag = "Apply"
       /\ IF ChainOperand(2).value.tag = "Apply"
          THEN /\ result.value.fn = ChainOperand(2).value.fn
               /\ result.value.args = <<ChainOperand(1)>> \o ChainOperand(2).value.args
          ELSE /\ result.value.fn = ChainOperand(2)
               /\ result.value.args = <<ChainOperand(1)>>

C5_Witness ==
    /\ pc = "returned"
    /\ loc_expr = Chain(<<"Pizza">>, "call2")
    /\ result.value.fn = V("g", 4)
    /\ result.value.args = <<V("a", 0), V("y", 5), V("z", 6)>>

(* C6: `pat <- producer; cont` is one application: the closure             *)
(* \pat -> cont is appended to the arguments of a desugared producer that  *)
(* is an application (same callee, same arguments, same provenance), and   *)
(* is the only argument of any other desugared producer.                   *)
IsBackpassing == Called /\ loc_expr.value.tag = "Backpassing"

BackpassingClosure ==
    Loc(loc_expr.region,
        [tag |-> "Closure",
         patterns |-> DesugaredPatterns(loc_expr.value.patterns),
         body |-> Desugared(loc_expr.value.ret)])

C6_BackpassingComposition ==
    IsBackpassing
    => LET producer == Desugared(loc_expr.value.body)
       IN  /\ pc = "returned"
           /\ result.value.tag = "Apply"
           /\ IF producer.value.tag = "Apply"
              THEN /\ result.value.fn = producer.value.fn
                   /\ result.value.args
                        = producer.value.args \o <<BackpassingClosure>>
                   /\ result.value.called_via = producer.value.called_via
              ELSE /\ result.value.fn = producer
                   /\ result.value.args = <<BackpassingClosure>>

C6_Witness ==
    /\ pc = "returned"
    /\ loc_expr.value.tag = "Backpassing"
    /\ loc_expr.value.body
         = Call(V("runEffect", 10), <<V("arg1", 11), V("arg2", 12)>>, 10)
    /\ result.value.fn = V("runEffect", 10)
    /\ Len(result.value.args) = 3
    /\ result.value.args[3].value.tag = "Closure"

(* C7: `x <- (foo bar)` becomes `foo bar (\x -> cont)`: when the producer  *)
(* is a parenthesized application the closure is appended to the arguments *)
(* of that application.                                                    *)
C7_ParenthesizedProducer ==
    (/\ IsBackpassing
     /\ loc_expr.value.body.value.tag = "ParensAround"
     /\ loc_expr.value.body.value.expr.tag = "Apply")
    => /\ pc = "returned"
       /\ result.value.tag = "Apply"
       /\ result.value.fn = Desugared(loc_expr.value.body.value.expr.fn)
       /\ Len(result.value.args) = Len(loc_expr.value.body.value.expr.args) + 1
       /\ result.value.args[Len(result.value.args)] = BackpassingClosure

(* C8: a returned tree holds no BinOps, Backpassing, RecordBuilder,        *)
(* SpaceBefore, SpaceAfter or UnaryOp node anywhere, marker payloads and   *)
(* the patterns of definitions included.                                   *)
C8_DerivedSyntaxEliminated ==
    pc = "returned" => TagsOfExpr(result.value) \cap DerivedSyntaxTags = {}

(* An expression without the SpaceBefore / SpaceAfter wrappers around it.  *)
RECURSIVE Unspaced(_)
Unspaced(value) ==
    IF value.tag \in {"SpaceBefore", "SpaceAfter"} THEN Unspaced(value.expr) ELSE value

(* The positions of the record-builder arguments of a call.                *)
BuilderArgs(args) ==
    {i \in 1..Len(args) : Unspaced(args[i].value).tag = "RecordBuilder"}

(* C15: a call with two or more record-builder arguments, bare or under    *)
(* space wrappers, desugars, without aborting, to one                      *)
(* MultipleRecordBuilders marker at the region of the call that stands for *)
(* the whole call.                                                         *)
C15_MultipleRecordBuilders ==
    (/\ Called
     /\ loc_expr.value.tag = "Apply"
     /\ Cardinality(BuilderArgs(loc_expr.value.args)) >= 2)
    => /\ pc = "returned"
       /\ result = Loc(loc_expr.region,
                       [tag |-> "MultipleRecordBuilders", expr |-> loc_expr])

(* Three record builders in one call, one of them under a space wrapper.   *)
C15_Witness ==
    /\ pc = "returned"
    /\ loc_expr.value.tag = "Apply"
    /\ Cardinality(BuilderArgs(loc_expr.value.args)) = 3
    /\ \E i \in 1..Len(loc_expr.value.args) :
            loc_expr.value.args[i].value.tag = "SpaceBefore"
    /\ result.value.tag = "MultipleRecordBuilders"
    /\ result.region = loc_expr.region

(* The subtrees that stand side by side under a node: the elements of a    *)
(* list or a tuple, the values of a record's fields (a label alone stands  *)
(* for the variable of that name), the arguments of a call, the conditions *)
(* and branches of an if, the condition, branch values and guards of a     *)
(* when.                                                                   *)
MarkerTags == {"PrecedenceConflict", "MultipleRecordBuilders", "UnappliedRecordBuilder"}

RECURSIVE FieldExpr(_)
FieldExpr(field) ==
    CASE field.tag \in {"Field::SpaceBefore", "Field::SpaceAfter"} -> FieldExpr(field.field)
      [] field.tag = "Field::LabelOnly" ->
            <<Loc(field.label.region, Var("", field.label.value))>>
      [] field.tag \in {"Field::RequiredValue", "Field::OptionalValue"} -> <<field.expr>>
      [] OTHER -> <<>>

RECURSIVE Flatten(_)
Flatten(seqs) == IF seqs = <<>> THEN <<>> ELSE Head(seqs) \o Flatten(Tail(seqs))

BranchExprs(branch) ==
    IF branch.guard.some THEN <<branch.value, branch.guard.expr>> ELSE <<branch.value>>

SiblingsOf(e) ==
    CASE e.tag \in {"List", "Tuple"} -> e.items
      [] e.tag = "Record" ->
            Flatten([i \in 1..Len(e.fields) |-> FieldExpr(e.fields[i].value)])
      [] e.tag = "Apply" -> e.args
      [] e.tag = "If" -> Flatten(e.if_thens) \o <<e.final_else>>
      [] e.tag = "When" ->
            <<e.cond>> \o Flatten([i \in 1..Len(e.branches) |-> BranchExprs(e.branches[i])])
      [] OTHER -> <<>>

IsMarker(loc) == loc.value.tag \in MarkerTags

IsBuilder(loc) == Unspaced(loc.value).tag = "RecordBuilder"

UnappliedMarker(loc) ==
    Loc(loc.region, [tag |-> "UnappliedRecordBuilder",
                     expr |-> Loc(loc.region, Unspaced(loc.value))])

(* C17: a record builder that is the tree itself, that stands in           *)
(* parentheses, or that is an element of a list or tuple, a field value of *)
(* a record, a condition or branch of an if or of a when, bare or under    *)
(* space wrappers, is replaced by an UnappliedRecordBuilder marker of the  *)
(* same region that holds the builder, and the pass returns.               *)
C17_UnappliedRecordBuilder ==
    /\ (Called /\ IsBuilder(loc_expr))
            => pc = "returned" /\ result = UnappliedMarker(loc_expr)
    /\ (Called /\ loc_expr.value.tag = "ParensAround"
               /\ IsBuilder(Loc(loc_expr.region, loc_expr.value.expr)))
            => /\ pc = "returned"
               /\ result.value.tag = "ParensAround"
               /\ Loc(result.region, result.value.expr) =
                    UnappliedMarker(Loc(loc_expr.region, loc_expr.value.expr))
    /\ (Called /\ loc_expr.value.tag \in {"List", "Tuple", "Record", "If", "When"})
            => \A j \in 1..Len(SiblingsOf(loc_expr.value)) :
                    IsBuilder(SiblingsOf(loc_expr.value)[j])
                    => /\ pc = "returned"
                       /\ SiblingsOf(result.value)[j] =
                            UnappliedMarker(SiblingsOf(loc_expr.value)[j])

(* A record builder under a space wrapper, handed over on its own.         *)
C17_Witness ==
    /\ pc = "returned"
    /\ loc_expr.value.tag = "SpaceBefore"
    /\ loc_expr.value.expr.tag = "RecordBuilder"
    /\ result.value.tag = "UnappliedRecordBuilder"
    /\ result.value.expr.value.tag = "RecordBuilder"
    /\ result.region = loc_expr.region

(* A tree without its trivia: the SpaceBefore / SpaceAfter wrappers of     *)
(* expressions, patterns and record fields taken away, the wrapped node    *)
(* standing at the wrapper's region.                                       *)
RECURSIVE WithoutTrivia(_)
RECURSIVE WithoutTriviaPattern(_)
RECURSIVE WithoutTriviaField(_)

WithoutTriviaAll(locs) == [i \in 1..Len(locs) |-> WithoutTrivia(locs[i])]

WithoutTriviaPatterns(locs) ==
    [i \in 1..Len(locs) |-> Loc(locs[i].region, WithoutTriviaPattern(locs[i].value))]

WithoutTriviaFields(locs) ==
    [i \in 1..Len(locs) |-> Loc(locs[i].region, WithoutTriviaField(locs[i].value))]

WithoutTriviaSegments(segments) ==
    [i \in 1..Len(segments) |->
        IF segments[i].tag \in {"Segment::Interpolated", "Segment::DeprecatedInterpolated"}
        THEN [segments[i] EXCEPT !.expr = WithoutTrivia(@)]
        ELSE segments[i]]

WithoutTriviaDef(def) ==
    CASE def.tag = "ValueDef::Body" ->
            [def EXCEPT !.pattern = Loc(@.region, WithoutTriviaPattern(@.value)),
                        !.expr = WithoutTrivia(@)]
      [] def.tag = "ValueDef::AnnotatedBody" ->
            [def EXCEPT !.body_pattern = Loc(@.region, WithoutTriviaPattern(@.value)),
                        !.body_expr = WithoutTrivia(@)]
      [] def.tag \in {"ValueDef::Dbg", "ValueDef::Expect", "ValueDef::ExpectFx"} ->
            [def EXCEPT !.condition = WithoutTrivia(@)]
      [] def.tag = "ValueDef::Stmt" -> [def EXCEPT !.expr = WithoutTrivia(@)]
      [] OTHER -> def

WithoutTriviaPattern(p) ==
    CASE p.tag = "Pattern::Apply" -> [p EXCEPT !.args = WithoutTriviaPatterns(@)]
      [] p.tag \in {"Pattern::RecordDestructure", "Pattern::Tuple", "Pattern::List"} ->
            [p EXCEPT !.patterns = WithoutTriviaPatterns(@)]
      [] p.tag \in {"Pattern::RequiredField", "Pattern::As"} ->
            [p EXCEPT !.pattern = Loc(@.region, WithoutTriviaPattern(@.value))]
      [] p.tag = "Pattern::OptionalField" -> [p EXCEPT !.expr = WithoutTrivia(@)]
      [] p.tag \in {"Pattern::SpaceBefore", "Pattern::SpaceAfter"} ->
            WithoutTriviaPattern(p.pattern)
      [] OTHER -> p

WithoutTriviaField(f) ==
    CASE f.tag \in {"Field::RequiredValue", "Field::OptionalValue"} ->
            [f EXCEPT !.expr = WithoutTrivia(@)]
      [] f.tag \in {"Field::SpaceBefore", "Field::SpaceAfter"} ->
            WithoutTriviaField(f.field)
      [] OTHER -> f

WithoutTrivia(loc) ==
    LET e == loc.value
    IN  CASE e.tag \in {"SpaceBefore", "SpaceAfter"} ->
                WithoutTrivia(Loc(loc.region, e.expr))
          [] e.tag = "Str" ->
                (CASE e.literal.tag = "Line" ->
                        Loc(loc.region,
                            [e EXCEPT !.literal.segments = WithoutTriviaSegments(@)])
                   [] e.literal.tag = "Block" ->
                        Loc(loc.region,
                            [e EXCEPT !.literal.lines =
                                [i \in 1..Len(@) |-> WithoutTriviaSegments(@[i])]])
                   [] OTHER -> loc)
          [] e.tag \in {"TupleAccess", "RecordAccess", "ParensAround"} ->
                Loc(loc.region,
                    [e EXCEPT !.expr = WithoutTrivia(Loc(loc.region, @)).value])
          [] e.tag \in {"List", "Tuple"} ->
                Loc(loc.region, [e EXCEPT !.items = WithoutTriviaAll(@)])
          [] e.tag = "Record" ->
                Loc(loc.region, [e EXCEPT !.fields = WithoutTriviaFields(@)])
          [] e.tag = "RecordUpdate" ->
                Loc(loc.region, [e EXCEPT !.update = WithoutTrivia(@),
                                          !.fields = WithoutTriviaFields(@)])
          [] e.tag = "Closure" ->
                Loc(loc.region, [e EXCEPT !.patterns = WithoutTriviaPatterns(@),
                                          !.body = WithoutTrivia(@)])
          [] e.tag = "Defs" ->
                Loc(loc.region,
                    [e EXCEPT !.defs = [i \in 1..Len(@) |-> WithoutTriviaDef(@[i])],
                              !.ret = WithoutTrivia(@)])
          [] e.tag = "Apply" ->
                Loc(loc.region, [e EXCEPT !.fn = WithoutTrivia(@),
                                          !.args = WithoutTriviaAll(@)])
          [] e.tag = "When" ->
                Loc(loc.region,
                    [e EXCEPT !.cond = WithoutTrivia(@),
                              !.branches =
                                [i \in 1..Len(@) |->
                                    [patterns |-> WithoutTriviaPatterns(@[i].patterns),
                                     value |-> WithoutTrivia(@[i].value),
                                     guard |-> IF @[i].guard.some
                                               THEN [some |-> TRUE,
                                                     expr |-> WithoutTrivia(@[i].guard.expr)]
                                               ELSE @[i].guard]]])
          [] e.tag = "If" ->
                Loc(loc.region,
                    [e EXCEPT !.if_thens =
                                [i \in 1..Len(@) |->
                                    <<WithoutTrivia(@[i][1]), WithoutTrivia(@[i][2])>>],
                              !.final_else = WithoutTrivia(@)])
          [] e.tag \in {"Expect", "Dbg"} ->
                Loc(loc.region, [e EXCEPT !.condition = WithoutTrivia(@),
                                          !.continuation = WithoutTrivia(@)])
          [] OTHER -> loc

(* Trees made of canonical syntax only.                                    *)
NonCanonicalTags == {"BinOps", "UnaryOp", "Backpassing", "RecordBuilder", "ValueDef::Stmt"}

IsCanonical(loc) == TagsOfExpr(loc.value) \cap NonCanonicalTags = {}

(* The pass run again on the tree it returned.                             *)
DesugaredAgain ==
    desugar_expr(result, [computed |-> line_info.computed, builds |-> line_info.builds,
                          aborted |-> FALSE])

(* C18: for a tree without operator chain, unary operator, backpassing,    *)
(* record builder or statement definition the pass returns the tree        *)
(* without its trivia, and run again on that result it returns it          *)
(* unchanged.                                                              *)
C18_IdempotentOnCanonical ==
    (Called /\ IsCanonical(loc_expr))
    => /\ pc = "returned"
       /\ result = WithoutTrivia(loc_expr)
       /\ ~DesugaredAgain.st.aborted
       /\ DesugaredAgain.out = result

(* C19: LineInfo is built at most once, and line_info is computed exactly  *)
(* when it has been built; a step changes line_info only from not computed *)
(* to computed, only in a call whose tree holds a Dbg expression, and      *)
(* builds LineInfo once in that call however many Dbg expressions the tree *)
(* holds; once computed, line_info is never changed again.                 *)
HoldsDbg(loc) == "Dbg" \in TagsOfExpr(loc.value)

LineInfoStep ==
    /\ line_info.computed => line_info' = line_info
    /\ line_info' # line_info
        => /\ ~line_info.computed
           /\ line_info'.computed
           /\ line_info'.builds = line_info.builds + 1
           /\ pc = "idle"
           /\ HoldsDbg(loc_expr')
    /\ ~HoldsDbg(loc_expr') => line_info' = line_info

C19_LazyLineIndex ==
    /\ [](line_info.builds <= 1 /\ (line_info.computed <=> line_info.builds = 1))
    /\ [][LineInfoStep]_vars

(* A tree with two Dbg expressions, after which LineInfo has been built    *)
(* once.                                                                   *)
C19_Witness ==
    /\ pc = "returned"
    /\ loc_expr.value.tag = "List"
    /\ loc_expr.value.items[1].value.tag = "Dbg"
    /\ loc_expr.value.items[2].value.tag = "Dbg"
    /\ result.value.items[1].value.tag = "LowLevelDbg"
    /\ result.value.items[2].value.tag = "LowLevelDbg"
    /\ line_info.computed
    /\ line_info.builds = 1

(***************************************************************************)
(* Constraint validation as a state machine: the caller hands one          *)
(* constraint tree after another to validate.                              *)
(***************************************************************************)
MaxVar == 2

Vars == 1..MaxVar

TypeTerms ==
    {EmptyRec} \cup {Variable(v) : v \in Vars}
        \cup {Function(Variable(v), w, EmptyRec) : v \in Vars, w \in Vars}
        \cup {RecursiveTagUnion(r, Variable(v)) : r \in Vars, v \in Vars}

LeafConstraints ==
    {Eq(t, e) : t \in TypeTerms, e \in {EmptyRec, Variable(1)}}
        \cup {Eq(Function(EmptyRec, 1, EmptyRec), Variable(2))}
        \cup {Pattern(t, EmptyRec) : t \in TypeTerms}
        \cup {Store(t, v) : t \in {EmptyRec} \cup {Variable(w) : w \in Vars}, v \in Vars}
        \cup {Lookup(Variable(v)) : v \in Vars}
        \cup {True, SaveTheEnvironment}

(* The constraints put under a Let or an And.                              *)
NestedLeaves ==
    {Eq(Variable(v), EmptyRec) : v \in Vars}
        \cup {Eq(Variable(1), Variable(MaxVar)),
              Eq(EmptyRec, Function(Variable(1), MaxVar, EmptyRec)),
              Eq(Function(EmptyRec, 1, EmptyRec), Variable(MaxVar)),
              Eq(RecursiveTagUnion(1, Variable(MaxVar)), EmptyRec),
              Store(EmptyRec, 1), Pattern(Variable(MaxVar), EmptyRec),
              Lookup(Variable(MaxVar)), True}

DefTypes == {<<>>, <<Variable(MaxVar)>>}

LetConstraints ==
    {Let(r, f, dt, d, c) : r \in SUBSET Vars, f \in SUBSET Vars, dt \in DefTypes,
                           d \in NestedLeaves, c \in NestedLeaves}

(* A Let that declares one set of variables around one leaf.               *)
SmallLets ==
    {Let(r, {}, <<>>, True, c) : r \in SUBSET Vars, c \in NestedLeaves}
        \cup {Let({}, f, <<>>, c, True) : f \in SUBSET Vars, c \in NestedLeaves}

(* A small Let beside a leaf, before it or after it.                       *)
AndConstraints ==
    {And(<<a, b>>) : a \in SmallLets, b \in NestedLeaves}
        \cup {And(<<b, a>>) : a \in SmallLets, b \in NestedLeaves}

(* A small Let inside the defs_constraint of a Let.                        *)
LetInDefs ==
    {Let(r, {}, <<>>, a, b) : r \in SUBSET Vars, a \in SmallLets, b \in NestedLeaves}

(* A small Let inside the ret_constraint of a Let.                         *)
LetInRet ==
    {Let({}, f, <<>>, b, a) : f \in SUBSET Vars, a \in SmallLets, b \in NestedLeaves}

(* Leaves whose type terms carry a lambda-set or a recursion variable,    *)
(* under a Let that declares it, after a leaf that may leave a variable   *)
(* unbound.                                                                *)
RoleLeaves ==
    {Eq(Function(EmptyRec, 1, EmptyRec), EmptyRec),
     Eq(EmptyRec, RecursiveTagUnion(1, EmptyRec)),
     Pattern(Function(EmptyRec, 1, EmptyRec), EmptyRec),
     Pattern(EmptyRec, RecursiveTagUnion(1, EmptyRec)),
     Store(Function(EmptyRec, 1, EmptyRec), MaxVar),
     Store(RecursiveTagUnion(1, EmptyRec), MaxVar),
     Eq(Function(EmptyRec, 1, EmptyRec), RecursiveTagUnion(MaxVar, EmptyRec))}

RoleLets ==
    {Let(r, f, <<>>, d, c) : r \in SUBSET Vars, f \in SUBSET Vars,
                             d \in {True, Eq(Variable(MaxVar), EmptyRec)},
                             c \in RoleLeaves}
        \cup {And(<<Eq(Variable(1), EmptyRec), Let(r, f, <<>>, True, c)>>) :
                    r \in SUBSET Vars, f \in SUBSET Vars, c \in RoleLeaves}

(* Lets whose Lookups and def_types hold variables of every role, declared *)
(* in either set or not at all, beside nodes without a type.               *)
SkippedTypes ==
    {Variable(MaxVar), Function(EmptyRec, 1, EmptyRec), RecursiveTagUnion(1, EmptyRec)}

SkippedLets ==
    {Let(r, f, <<dt>>, d, c) :
        r \in SUBSET Vars, f \in SUBSET Vars, dt \in SkippedTypes,
        d \in {True, SaveTheEnvironment, Lookup(Function(EmptyRec, 1, EmptyRec))},
        c \in {Lookup(RecursiveTagUnion(1, EmptyRec)), Lookup(Variable(MaxVar)),
               Eq(Variable(MaxVar), EmptyRec)}}

(* constraint.validate()                                                   *)
Validation(c, o) ==
    /\ constraint' = c
    /\ outcome' = o
    /\ pc' = IF o.status = "true" THEN "validated" ELSE "panicked"

ConstraintFamilies ==
    {"Leaf", "Let", "And", "LetInDefs", "LetInRet", "Role", "Skipped"}

ConstraintFamily(family) ==
    CASE family = "Leaf" -> LeafConstraints
      [] family = "Let" -> LetConstraints
      [] family = "And" -> AndConstraints
      [] family = "LetInDefs" -> LetInDefs
      [] family = "LetInRet" -> LetInRet
      [] family = "Role" -> RoleLets
      [] family = "Skipped" -> SkippedLets

Validate ==
    /\ pc = "idle"
    /\ \E family \in ConstraintFamilies :
          \E c \in ConstraintFamily(family) : Validation(c, validate(c))
    /\ UNCHANGED <<loc_expr, line_info, result>>
    /\ UNCHANGED locals

(* The caller goes on to the next constraint tree.                         *)
TakeOutcome ==
    /\ pc = "validated"
    /\ pc' = "idle"
    /\ constraint' = NoConstraint
    /\ outcome' = NoOutcome
    /\ UNCHANGED <<loc_expr, line_info, result>>
    /\ UNCHANGED locals

NextValidate == Validate \/ TakeOutcome

SpecValidate == Init /\ [][NextValidate]_vars

(***************************************************************************)
(* Properties of constraint validation                                     *)
(***************************************************************************)
Validated == pc \in {"validated", "panicked"}

(* The ordinary type variables that an Eq of c references and that no Let  *)
(* on the path from the root to that Eq introduces; scope holds the        *)
(* variables introduced so far.                                            *)
TypeVarsOf(c) ==
    variables_detail(c.typ).type_variables
        \cup variables_detail(c.expected).type_variables

RECURSIVE UndeclaredEqVars(_, _)
UndeclaredEqVars(c, scope) ==
    CASE c.tag = "Eq" -> TypeVarsOf(c) \ scope
      [] c.tag = "Let" ->
            UndeclaredEqVars(c.defs_constraint,
                             scope \cup c.rigid_vars \cup c.flex_vars)
                \cup UndeclaredEqVars(c.ret_constraint,
                                      scope \cup c.rigid_vars \cup c.flex_vars)
      [] c.tag = "And" ->
            UNION {UndeclaredEqVars(c.inner[i], scope) : i \in 1..Len(c.inner)}
      [] OTHER -> {}

RolePanics == {LambdaSetRigid, RecursionFlex}

(* C9 as stated: a type variable that an Eq references and no enclosing    *)
(* Let introduces is put in the unbound-type-variables bucket, and         *)
(* validate fails hard.                                                    *)
C9_UndeclaredVariable ==
    Validated
    => \A v \in UndeclaredEqVars(constraint, {}) :
          /\ outcome.status = "panic"
          /\ v \in outcome.unbound.type_variables

(* C9 amended: validate fails hard; the variable is in the                 *)
(* unbound-type-variables bucket, and the failure is the report of that    *)
(* bucket, unless a role violation has ended the walk first.               *)
C9_UndeclaredVariableAmended ==
    Validated
    => \A v \in UndeclaredEqVars(constraint, {}) :
          /\ outcome.status = "panic"
          /\ outcome.why \notin RolePanics
                => /\ v \in outcome.unbound.type_variables
                   /\ outcome.why = "found unbound type variables"

(* A variable that only a sibling Let introduces is unbound where it is    *)
(* used outside that Let.                                                  *)
C9_Witness ==
    /\ pc = "panicked"
    /\ constraint = And(<<Let({1}, {}, <<>>, True, Eq(Variable(1), EmptyRec)),
                          Eq(Variable(1), EmptyRec)>>)
    /\ outcome.why = "found unbound type variables"
    /\ outcome.unbound.type_variables = {1}

(* C10: a Let whose defs and ret constraints reference, inside Eq          *)
(* constraints only and as ordinary type variables, none but variables     *)
(* that the Let introduces validates: validate returns true and the three  *)
(* buckets are empty.                                                      *)
RECURSIVE OnlyEqRefs(_, _)
OnlyEqRefs(c, vs) ==
    CASE c.tag = "Eq" ->
            /\ TypeVarsOf(c) \subseteq vs
            /\ variables_detail(c.typ).lambda_set_variables = {}
            /\ variables_detail(c.typ).recursion_variables = {}
            /\ variables_detail(c.expected).lambda_set_variables = {}
            /\ variables_detail(c.expected).recursion_variables = {}
      [] c.tag \in {"Store", "Pattern"} -> FALSE
      [] c.tag = "Let" ->
            OnlyEqRefs(c.defs_constraint, vs) /\ OnlyEqRefs(c.ret_constraint, vs)
      [] c.tag = "And" -> \A i \in 1..Len(c.inner) : OnlyEqRefs(c.inner[i], vs)
      [] OTHER -> TRUE

C10_LetScoping ==
    (/\ Validated
     /\ constraint.tag = "Let"
     /\ OnlyEqRefs(constraint.defs_constraint,
                   constraint.rigid_vars \cup constraint.flex_vars)
     /\ OnlyEqRefs(constraint.ret_constraint,
                   constraint.rigid_vars \cup constraint.flex_vars))
    => /\ pc = "validated"
       /\ outcome.status = "true"
       /\ outcome.unbound.type_variables = {}
       /\ outcome.unbound.lambda_set_variables = {}
       /\ outcome.unbound.recursion_variables = {}

C10_Witness ==
    /\ pc = "validated"
    /\ constraint = Let({1}, {}, <<>>, Eq(Variable(1), EmptyRec),
                        Eq(Variable(1), EmptyRec))
    /\ outcome.status = "true"

(* The role violations of a constraint tree: a type term of an Eq, a      *)
(* Pattern or a Store that holds a lambda-set variable declared rigid, or  *)
(* a recursion variable declared flexible, by the Lets around it.          *)
LambdaSetViolation(typ, rigid) ==
    variables_detail(typ).lambda_set_variables \cap rigid # {}

RecursionViolation(typ, flex) ==
    variables_detail(typ).recursion_variables \cap flex # {}

TermsOf(c) ==
    CASE c.tag \in {"Eq", "Pattern"} -> {c.typ, c.expected}
      [] c.tag = "Store" -> {c.typ}
      [] OTHER -> {}

RECURSIVE HasLambdaSetViolation(_, _)
HasLambdaSetViolation(c, rigid) ==
    CASE c.tag = "Let" ->
            \/ HasLambdaSetViolation(c.defs_constraint, rigid \cup c.rigid_vars)
            \/ HasLambdaSetViolation(c.ret_constraint, rigid \cup c.rigid_vars)
      [] c.tag = "And" ->
            \E i \in 1..Len(c.inner) : HasLambdaSetViolation(c.inner[i], rigid)
      [] OTHER -> \E t \in TermsOf(c) : LambdaSetViolation(t, rigid)

RECURSIVE HasRecursionViolation(_, _)
HasRecursionViolation(c, flex) ==
    CASE c.tag = "Let" ->
            \/ HasRecursionViolation(c.defs_constraint, flex \cup c.flex_vars)
            \/ HasRecursionViolation(c.ret_constraint, flex \cup c.flex_vars)
      [] c.tag = "And" ->
            \E i \in 1..Len(c.inner) : HasRecursionViolation(c.inner[i], flex)
      [] OTHER -> \E t \in TermsOf(c) : RecursionViolation(t, flex)

HasRoleViolation(c) == HasLambdaSetViolation(c, {}) \/ HasRecursionViolation(c, {})

(* C11: a constraint tree that holds a role violation makes validate       *)
(* abort with a role-specific failure, never with the end-of-walk report   *)
(* of the unbound buckets and never returning true, whatever has been      *)
(* accumulated in the buckets before; the failure names a role that is     *)
(* violated in the tree.                                                   *)
C11_RoleViolationsEager ==
    Validated
    => /\ HasRoleViolation(constraint)
            => outcome.status = "panic" /\ outcome.why \in RolePanics
       /\ outcome.why = LambdaSetRigid => HasLambdaSetViolation(constraint, {})
       /\ outcome.why = RecursionFlex => HasRecursionViolation(constraint, {})

(* A role violation met after a variable was put in the unbound bucket.    *)
C11_Witness ==
    /\ pc = "panicked"
    /\ constraint = Let({1}, {}, <<>>, Eq(Variable(MaxVar), EmptyRec),
                        Pattern(Function(EmptyRec, 1, EmptyRec), EmptyRec))
    /\ outcome.why = LambdaSetRigid
    /\ outcome.unbound.type_variables = {MaxVar}

(* The variables a node references, of any role, the target of a Store    *)
(* included, that no Let around the node declares, rigid or flexible.      *)
AllVariables(detail) ==
    detail.type_variables \cup detail.lambda_set_variables
        \cup detail.recursion_variables

RefsOf(c) ==
    CASE c.tag \in {"Eq", "Pattern"} ->
            AllVariables(variables_detail(c.typ))
                \cup AllVariables(variables_detail(c.expected))
      [] c.tag = "Store" -> AllVariables(variables_detail(c.typ)) \cup {c.var}
      [] OTHER -> {}

RECURSIVE UndeclaredRefs(_, _)
UndeclaredRefs(c, scope) ==
    CASE c.tag = "Let" ->
            UndeclaredRefs(c.defs_constraint, scope \cup c.rigid_vars \cup c.flex_vars)
                \cup UndeclaredRefs(c.ret_constraint,
                                    scope \cup c.rigid_vars \cup c.flex_vars)
      [] c.tag = "And" ->
            UNION {UndeclaredRefs(c.inner[i], scope) : i \in 1..Len(c.inner)}
      [] OTHER -> RefsOf(c) \ scope

(* C12: a variable is reported in a bucket of the unbound report only if   *)
(* some Eq, Pattern or Store references it where neither the rigid nor the *)
(* flexible variables of the enclosing Lets hold it; a tree all of whose   *)
(* references are declared does not fail as unbound.                       *)
C12_SubtractionByIdentity ==
    Validated
    => /\ AllVariables(outcome.unbound) \subseteq UndeclaredRefs(constraint, {})
       /\ UndeclaredRefs(constraint, {}) = {}
            => outcome.why \in RolePanics \cup {NoPanic}

(* C13: validate returns true or aborts, never false; it returns true      *)
(* exactly when the tree holds no role violation and the three buckets are *)
(* empty at the end of the walk.                                           *)
BucketsEmpty(unbound) ==
    /\ unbound.type_variables = {}
    /\ unbound.lambda_set_variables = {}
    /\ unbound.recursion_variables = {}

C13_TrueOrAbort ==
    Validated
    => /\ outcome.status \in {"true", "panic"}
       /\ outcome.status = "true"
            <=> (~HasRoleViolation(constraint) /\ BucketsEmpty(outcome.unbound))
       /\ outcome.status = "true" <=> pc = "validated"

(* The walk leaves only the recursion-variable bucket non-empty and        *)
(* validate aborts on it.                                                  *)
C13_Witness ==
    /\ pc = "panicked"
    /\ constraint = Eq(RecursiveTagUnion(1, Variable(1)), EmptyRec)
    /\ outcome.unbound.type_variables = {}
    /\ outcome.unbound.lambda_set_variables = {}
    /\ outcome.unbound.recursion_variables = {1}
    /\ outcome.why = "found unbound recursion variables"

(***************************************************************************)
(* record_builder_arg as a state machine: the Apply branch hands one       *)
(* record-builder argument after another to record_builder_arg.            *)
(***************************************************************************)
MaxFields == 3

(* The builder fields that can stand at position i: field i starts at      *)
(* offset 4(i-1) and is labelled OperandNames[i].                          *)
BuilderFieldsAt(i) ==
    LET s == 4 * (i - 1)
        name == OperandNames[i]
    IN  {ValueField(name, Num(s + 2), s),
         ApplyField(name, V("p", s + 2), s),
         SpacedField(ApplyField(name, V("q", s + 2), s)),
         Loc(<<s, s + 3>>, [tag |-> "BuilderField::SpaceBefore",
                            field |-> ValueField(name, V("v", s + 2), s).value]),
         Loc(<<s, s + 1>>, [tag |-> "BuilderField::LabelOnly", label |-> Label(name, s)]),
         Loc(<<s, s + 1>>, [tag |-> "BuilderField::Malformed"])}

BuilderFieldSeqs ==
    UNION {{fs \in [1..n -> UNION {BuilderFieldsAt(i) : i \in 1..n}] :
                \A i \in 1..n : fs[i] \in BuilderFieldsAt(i)}
           : n \in 0..MaxFields}

(* let builder_arg = record_builder_arg(arena, loc_arg.region, fields)     *)
RecordBuilderArgCall ==
    /\ pc = "idle"
    /\ \E fields \in BuilderFieldSeqs :
          /\ loc_expr' = Loc(<<0, 4 * MaxFields + 4>>,
                             [tag |-> "RecordBuilder", fields |-> fields])
          /\ result' = record_builder_arg(<<0, 4 * MaxFields + 4>>, fields)
    /\ pc' = "built"
    /\ UNCHANGED <<line_info, constraint, outcome>>
    /\ UNCHANGED locals

(* The Apply branch takes the closure and goes on to the next argument.    *)
TakeBuilderArg ==
    /\ pc = "built"
    /\ pc' = "idle"
    /\ loc_expr' = NoExpr
    /\ result' = NoExpr
    /\ UNCHANGED <<line_info, constraint, outcome>>
    /\ UNCHANGED locals

NextRecordBuilder == RecordBuilderArgCall \/ TakeBuilderArg

SpecRecordBuilder == Init /\ [][NextRecordBuilder]_vars

(***************************************************************************)
(* Properties of record_builder_arg                                        *)
(***************************************************************************)
RECURSIVE Bare(_)
Bare(field) ==
    IF field.tag \in {"BuilderField::SpaceBefore", "BuilderField::SpaceAfter"}
    THEN Bare(field.field)
    ELSE field

(* The positions of the applicative fields, in declaration order.          *)
RECURSIVE ApplicativeFrom(_, _)
ApplicativeFrom(fields, i) ==
    IF i > Len(fields)
    THEN <<>>
    ELSE IF Bare(fields[i].value).tag = "BuilderField::ApplyValue"
         THEN <<i>> \o ApplicativeFrom(fields, i + 1)
         ELSE ApplicativeFrom(fields, i + 1)

(* The body under n closures.                                              *)
RECURSIVE Peel(_, _)
Peel(expr, n) ==
    IF n = 0 \/ expr.value.tag # "Closure" THEN expr ELSE Peel(expr.value.body, n - 1)

HiddenVar(label) == Loc(label.region, Var("", "#" \o label.value))

HiddenPattern(label) ==
    Loc(label.region, [tag |-> "Pattern::Identifier", ident |-> "#" \o label.value])

RecordFieldOf(field, new) ==
    LET bare == Bare(field.value)
    IN  /\ new.region = field.region
        /\ CASE bare.tag = "BuilderField::ApplyValue" ->
                    new.value = [tag |-> "Field::RequiredValue", label |-> bare.label,
                                 expr |-> HiddenVar(bare.label)]
             [] bare.tag = "BuilderField::Value" ->
                    new.value = [tag |-> "Field::RequiredValue", label |-> bare.label,
                                 expr |-> bare.expr]
             [] bare.tag = "BuilderField::LabelOnly" ->
                    new.value = [tag |-> "Field::LabelOnly", label |-> bare.label]
             [] OTHER -> new.value.tag = "Field::Malformed"

(* C14: for a record builder with k applicative fields the closure of      *)
(* record_builder_arg is k closures deep, closure j taking the hidden      *)
(* variable of the j-th applicative field as its one parameter; under them *)
(* is a record that has one field for every field of the builder, in       *)
(* order and with its label, the value of an applicative field being its   *)
(* hidden variable; the apply expressions are those of the applicative     *)
(* fields in order.                                                        *)
C14_RecordBuilderShape ==
    pc = "built"
    => LET fields == loc_expr.value.fields
           applicative == ApplicativeFrom(fields, 1)
           k == Len(applicative)
           record == Peel(result.closure, k)
       IN  /\ \A j \in 1..k :
                /\ Peel(result.closure, j - 1).value.tag = "Closure"
                /\ Peel(result.closure, j - 1).value.patterns =
                        <<HiddenPattern(Bare(fields[applicative[j]].value).label)>>
           /\ record.value.tag = "Record"
           /\ Len(record.value.fields) = Len(fields)
           /\ \A i \in 1..Len(fields) : RecordFieldOf(fields[i], record.value.fields[i])
           /\ result.apply_exprs =
                [j \in 1..k |-> Bare(fields[applicative[j]].value).expr]

(* A builder with two applicative fields around a plain one.               *)
C14_Witness ==
    /\ pc = "built"
    /\ Len(loc_expr.value.fields) = 3
    /\ ApplicativeFrom(loc_expr.value.fields, 1) = <<1, 3>>
    /\ result.closure.value.tag = "Closure"
    /\ result.closure.value.patterns[1].value.ident = "#a"
    /\ result.closure.value.body.value.patterns[1].value.ident = "#c"
    /\ Len(result.apply_exprs) = 2

(***************************************************************************)
(* desugar_defs_node_values as a state machine: the callers hand one       *)
(* definition block after another, with the same line_info; the value      *)
(* definitions of the block are replaced in place.                         *)
(***************************************************************************)
DefsReturning(e, d) ==
    /\ loc_expr' = e
    /\ pc' = IF d.st.aborted THEN "aborted" ELSE "defs_done"
    /\ result' = IF d.st.aborted
                 THEN NoExpr
                 ELSE Loc(e.region, [e.value EXCEPT !.defs = d.out])
    /\ line_info' = [computed |-> d.st.computed, builds |-> d.st.builds]

DesugarDefsNodeValues ==
    /\ pc = "idle"
    /\ \E e \in DefsInputs :
          DefsReturning(e, desugar_defs_node_values(
                                e.value.defs,
                                [computed |-> line_info.computed,
                                 builds |-> line_info.builds, aborted |-> FALSE]))
    /\ UNCHANGED <<constraint, outcome>>
    /\ UNCHANGED locals

(* The caller takes the block and goes on to the next one.                 *)
TakeDefs ==
    /\ pc = "defs_done"
    /\ pc' = "idle"
    /\ loc_expr' = NoExpr
    /\ result' = NoExpr
    /\ UNCHANGED <<line_info, constraint, outcome>>
    /\ UNCHANGED locals

NextDefs == DesugarDefsNodeValues \/ TakeDefs

SpecDefs == Init /\ [][NextDefs]_vars

(***************************************************************************)
(* Properties of desugar_defs_node_values                                  *)
(***************************************************************************)
EmptyRecordDestructure(region) ==
    Loc(region, [tag |-> "Pattern::RecordDestructure", patterns |-> <<>>])

ValueDefOf(def, new) ==
    CASE def.tag = "ValueDef::Stmt" ->
            new = [tag |-> "ValueDef::Body",
                   pattern |-> EmptyRecordDestructure(def.expr.region),
                   expr |-> Desugared(def.expr)]
      [] def.tag = "ValueDef::Body" ->
            new = [tag |-> "ValueDef::Body",
                   pattern |-> DesugaredPatterns(<<def.pattern>>)[1],
                   expr |-> Desugared(def.expr)]
      [] def.tag = "ValueDef::AnnotatedBody" ->
            new = [def EXCEPT !.body_expr = Desugared(@)]
      [] def.tag \in {"ValueDef::Dbg", "ValueDef::Expect", "ValueDef::ExpectFx"} ->
            new = [def EXCEPT !.condition = Desugared(@)]
      [] OTHER -> new = def

(* C20: desugar_defs_node_values leaves a block with as many value         *)
(* definitions as it had, definition i standing for definition i: a        *)
(* statement e becomes the body `{} = e`, the empty record destructure at  *)
(* the region of e before the desugared e; every other definition keeps    *)
(* its kind, with its expression desugared.                                *)
C20_StatementDefinitions ==
    pc = "defs_done"
    => /\ result.value.ret = loc_expr.value.ret
       /\ Len(result.value.defs) = Len(loc_expr.value.defs)
       /\ \A i \in 1..Len(loc_expr.value.defs) :
            /\ ValueDefOf(loc_expr.value.defs[i], result.value.defs[i])
            /\ loc_expr.value.defs[i].tag # "ValueDef::Stmt"
                => result.value.defs[i].tag = loc_expr.value.defs[i].tag

(* A statement after a definition of another kind.                         *)
C20_Witness ==
    /\ pc = "defs_done"
    /\ Len(loc_expr.value.defs) = 2
    /\ loc_expr.value.defs[1].tag = "ValueDef::Expect"
    /\ loc_expr.value.defs[2].tag = "ValueDef::Stmt"
    /\ result.value.defs[1].tag = "ValueDef::Expect"
    /\ result.value.defs[2].tag = "ValueDef::Body"
    /\ result.value.defs[2].pattern.value.tag = "Pattern::RecordDestructure"
    /\ result.value.defs[2].pattern.region = loc_expr.value.defs[2].expr.region

(***************************************************************************)
(* Properties of the operator applications of a desugared chain            *)
(***************************************************************************)
RECURSIVE AppsOf(_)
AppsOf(e) ==
    IF e.value.tag = "Apply"
    THEN {e} \cup AppsOf(e.value.fn)
             \cup UNION {AppsOf(e.value.args[i]) : i \in 1..Len(e.value.args)}
    ELSE {}

NoConflict ==
    /\ IsChain
    /\ pc = "returned"
    /\ result.value.tag # "PrecedenceConflict"

(* The applications of the table function of operator i, standing where    *)
(* operator i stood.                                                       *)
OpApps(i) ==
    {n \in AppsOf(result) :
        n.value.fn = Loc(ChainOp(i).region,
                         FunctionVar(binop_to_function(ChainOp(i).value)))}

TwoArgumentApp(n, i) ==
    /\ n.value.called_via = ViaBinOp(ChainOp(i).value)
    /\ Len(n.value.args) = 2
    /\ n.value.args[1].region[2] <= ChainOp(i).region[1]
    /\ n.value.args[2].region[1] >= ChainOp(i).region[2]

(* C21: in a chain that desugars without a conflict, chains with a pipe    *)
(* included, every operator other than the pipe is in the output as one    *)
(* application called via that operator of the operator's table function   *)
(* to two arguments, what stood left of the operator before what stood     *)
(* right of it.                                                            *)
C21_TwoArgumentTranslation ==
    NoConflict
    => \A i \in 1..ChainLen :
          ChainOp(i).value \in TableOps
          => /\ OpApps(i) # {}
             /\ \A n \in OpApps(i) : TwoArgumentApp(n, i)

(* The same, for the chains without a pipe.                                *)
C21_WithoutPipe ==
    (NoConflict /\ \A i \in 1..ChainLen : ChainOp(i).value # "Pizza")
    => \A i \in 1..ChainLen :
          ChainOp(i).value \in TableOps
          => /\ Cardinality(OpApps(i)) = 1
             /\ \A n \in OpApps(i) : TwoArgumentApp(n, i)

(***************************************************************************)
(* desugar_bin_ops as a state machine: one action per iteration of its     *)
(* first loop, per call of binop_step, and for the final fold.             *)
(***************************************************************************)
Threaded == [computed |-> line_info.computed, builds |-> line_info.builds,
             aborted |-> FALSE]

(* desugar_bin_ops(arena, whole_region, lefts, right, ..): empty stacks    *)
BinOpsCalled(e) ==
    /\ loc_expr' = e
    /\ pairs' = e.value.lefts

BinOpsCall ==
    /\ pc = "idle"
    /\ \E e \in ChainInputs : BinOpsCalled(e)
    /\ args_stack' = <<>>
    /\ ops_stack' = <<>>
    /\ pc' = "scan"
    /\ UNCHANGED <<line_info, result, constraint, outcome, incoming_op, unwrap_stack>>

(* args_stack.push(desugar_expr(loc_expr)); run_binop_step(.., *loc_op)     *)
Operand(d) ==
    /\ pc' = IF d.st.aborted THEN "aborted" ELSE "step"
    /\ args_stack' = IF d.st.aborted THEN args_stack ELSE Append(args_stack, d.out)
    /\ line_info' = [computed |-> d.st.computed, builds |-> d.st.builds]

PushOperand ==
    /\ pc = "scan"
    /\ pairs # <<>>
    /\ Operand(desugar_expr(Head(pairs)[1], Threaded))
    /\ incoming_op' = Head(pairs)[2]
    /\ pairs' = Tail(pairs)
    /\ UNCHANGED <<loc_expr, result, constraint, outcome, ops_stack, unwrap_stack>>

(* match binop_step(..) { Error(problem) => Err(problem),                  *)
(*                        Push(loc_op) => run_binop_step(.., loc_op),      *)
(*                        Skip => Ok(()) }                                 *)
Stepped(s) ==
    /\ args_stack' = s.arg_stack
    /\ ops_stack' = s.op_stack
    /\ pc' = CASE s.step = "Push" -> "step"
               [] s.step = "Skip" -> "scan"
               [] s.step = "Error" -> "returned"
               [] OTHER -> "aborted"
    /\ result' = IF s.step = "Error" THEN s.problem ELSE result

BinopStep ==
    /\ pc = "step"
    /\ Stepped(binop_step(loc_expr.region, args_stack, ops_stack, incoming_op))
    /\ UNCHANGED <<loc_expr, line_info, constraint, outcome, pairs, incoming_op, unwrap_stack>>

(* let mut expr = desugar_expr(right); then the fold over the zipped       *)
(* stacks in reverse                                                       *)
Folded(d) ==
    /\ pc' = IF d.st.aborted THEN "aborted" ELSE "returned"
    /\ result' = IF d.st.aborted THEN NoExpr ELSE d.out
    /\ line_info' = [computed |-> d.st.computed, builds |-> d.st.builds]

FoldRight ==
    /\ pc = "scan"
    /\ pairs = <<>>
    /\ Folded(desugar_bin_ops_right([arg_stack |-> args_stack, op_stack |-> ops_stack],
                                    desugar_expr(loc_expr.value.right, Threaded)))
    /\ UNCHANGED <<loc_expr, constraint, outcome, locals>>

(* The caller takes the expression; the stacks are gone with the call.     *)
TakeChain ==
    /\ pc = "returned"
    /\ pc' = "idle"
    /\ loc_expr' = NoExpr
    /\ result' = NoExpr
    /\ args_stack' = <<>>
    /\ ops_stack' = <<>>
    /\ pairs' = <<>>
    /\ incoming_op' = NoOp
    /\ UNCHANGED <<line_info, constraint, outcome, unwrap_stack>>

NextBinOps == BinOpsCall \/ PushOperand \/ BinopStep \/ FoldRight \/ TakeChain

SpecBinOps == Init /\ [][NextBinOps]_vars

(* The stepwise run ends with what desugar_expr returns for the chain.     *)
StepwiseAgrees ==
    (pc = "returned" /\ loc_expr.value.tag = "BinOps") => result = Desugared(loc_expr)

(***************************************************************************)
(* Properties of the stepwise desugar_bin_ops                              *)
(***************************************************************************)
InChain == loc_expr.value.tag = "BinOps"

(* The number of pairs of lefts visited so far.                            *)
Visited == ChainLen - Len(pairs)

RightAssociativeChain ==
    /\ InChain
    /\ ChainLen >= 2
    /\ \A i \in 1..ChainLen :
          /\ associativity(ChainOp(i).value) = "RightAssociative"
          /\ precedence(ChainOp(i).value) = precedence(ChainOp(1).value)

RECURSIVE RightNested(_)
RightNested(i) ==
    IF i > ChainLen
    THEN ChainOperand(ChainLen + 1)
    ELSE new_op_call_expr(ChainOperand(i), ChainOp(i), RightNested(i + 1))

(* C22: in a chain of two or more right-associative operators of one       *)
(* precedence nothing is reduced during the scan: the operand stack holds  *)
(* the desugared operands visited so far and the operator stack their      *)
(* operators, unchanged; the call returns a op (b op (c ...)).             *)
C22_RightAssociative ==
    RightAssociativeChain
    => /\ pc # "aborted"
       /\ pc \in {"scan", "step"}
          => /\ args_stack = [i \in 1..Visited |-> ChainOperand(i)]
             /\ ops_stack = [i \in 1..(IF pc = "scan" THEN Visited ELSE Visited - 1)
                                |-> ChainOp(i)]
       /\ pc = "returned" => result = RightNested(1)

C22_Witness ==
    /\ pc = "returned"
    /\ loc_expr = Chain(<<"And", "And", "And">>, "call1")
    /\ Len(ops_stack) = 3
    /\ IsOpApp(result, "And", ChainOperand(1), result.value.args[2])
    /\ IsOpApp(result.value.args[2], "And", ChainOperand(2),
               result.value.args[2].value.args[2])
    /\ IsOpApp(result.value.args[2].value.args[2], "And", ChainOperand(3),
               ChainOperand(4))

(***************************************************************************)
(* Properties of the nodes validate_help skips                             *)
(***************************************************************************)
(* The variables, of any role, of the Eq, Pattern and Store nodes of c.    *)
RECURSIVE ObligedVars(_)
ObligedVars(c) ==
    CASE c.tag = "Let" -> ObligedVars(c.defs_constraint) \cup ObligedVars(c.ret_constraint)
      [] c.tag = "And" -> UNION {ObligedVars(c.inner[i]) : i \in 1..Len(c.inner)}
      [] c.tag = "Store" -> {c.var} \cup AllVariables(variables_detail(c.typ))
      [] OTHER -> UNION {AllVariables(variables_detail(t)) : t \in TermsOf(c)}

(* c with every Lookup and SaveTheEnvironment turned into True and every   *)
(* def_types map emptied.                                                  *)
RECURSIVE WithoutSkipped(_)
WithoutSkipped(c) ==
    CASE c.tag = "Let" ->
            Let(c.rigid_vars, c.flex_vars, <<>>, WithoutSkipped(c.defs_constraint),
                WithoutSkipped(c.ret_constraint))
      [] c.tag = "And" -> And([i \in 1..Len(c.inner) |-> WithoutSkipped(c.inner[i])])
      [] c.tag \in {"Lookup", "SaveTheEnvironment"} -> True
      [] OTHER -> c

RECURSIVE HoldsSkipped(_)
HoldsSkipped(c) ==
    CASE c.tag = "Let" ->
            \/ c.def_types # <<>>
            \/ HoldsSkipped(c.defs_constraint)
            \/ HoldsSkipped(c.ret_constraint)
      [] c.tag = "And" -> \E i \in 1..Len(c.inner) : HoldsSkipped(c.inner[i])
      [] OTHER -> c.tag \in {"Lookup", "SaveTheEnvironment"}

(* C23: Lookup, True and SaveTheEnvironment nodes and the def_types of a   *)
(* Let create no obligation: validate ends as it does on the tree without  *)
(* them, every variable in an unbound bucket is a variable of an Eq, a     *)
(* Pattern or a Store, and a role failure is a violation in one of those.  *)
C23_OnlyObligations ==
    Validated
    => /\ outcome = validate(WithoutSkipped(constraint))
       /\ AllVariables(outcome.unbound) \subseteq ObligedVars(constraint)
       /\ outcome.why \in RolePanics => HasRoleViolation(constraint)

(* Validated although the Lookups and the def_types hold a lambda-set      *)
(* variable declared rigid, a recursion variable declared flexible and an  *)
(* undeclared variable.                                                    *)
C23_Witness ==
    /\ pc = "validated"
    /\ constraint = Let({1}, {1}, <<RecursiveTagUnion(1, EmptyRec)>>,
                        Lookup(Function(EmptyRec, 1, EmptyRec)),
                        Lookup(Variable(MaxVar)))
    /\ BucketsEmpty(outcome.unbound)

(* C24: whenever binop_step is called on a non-empty operator stack the    *)
(* operand stack holds at least two operands (one more than there are      *)
(* operators), so its two pops never fail; whenever run_binop_step has     *)
(* returned Ok the two stacks have the same length.                        *)
C24_StackDiscipline ==
    InChain
    => /\ pc # "aborted"
       /\ pc = "step"
          => /\ Len(args_stack) = Len(ops_stack) + 1
             /\ ops_stack # <<>> => Len(args_stack) >= 2
             /\ binop_step(loc_expr.region, args_stack, ops_stack,
                           incoming_op).step # "Panic"
       /\ pc = "scan" => Len(args_stack) = Len(ops_stack)

(* Three operators scanned, one of them reduced, two left on the stack.    *)
C24_Witness ==
    /\ pc = "scan"
    /\ loc_expr = Chain(<<"And", "Star", "Plus">>, "var")
    /\ pairs = <<>>
    /\ Len(ops_stack) = 2
    /\ Len(args_stack) = 2
    /\ IsOpApp(args_stack[2], "Star", ChainOperand(2), ChainOperand(3))

(* C25: whenever a step of the scan is complete the precedences on the     *)
(* operator stack never decrease from bottom to top, and two adjacent      *)
(* operators of equal precedence are both right-associative.               *)
StackOrdered(ops) ==
    \A i \in 1..(Len(ops) - 1) :
        /\ precedence(ops[i].value) <= precedence(ops[i + 1].value)
        /\ precedence(ops[i].value) = precedence(ops[i + 1].value)
            => /\ associativity(ops[i].value) = "RightAssociative"
               /\ associativity(ops[i + 1].value) = "RightAssociative"

C25_OperatorStackOrdered ==
    (InChain /\ pc = "scan") => StackOrdered(ops_stack)

(* What the final fold gives for an ordered stack is the nesting by        *)
(* precedence: each operator left on the stack takes all that follows it.  *)
C25_FoldNesting ==
    (InChain /\ pc = "returned" /\ result.value.tag # "PrecedenceConflict"
        /\ \A i \in 1..ChainLen : ChainOp(i).value # "Pizza")
    => /\ StackOrdered(ops_stack)
       /\ ops_stack # <<>>
       /\ IsOpApp(result, ops_stack[1].value, args_stack[1], result.value.args[2])

(* Operators of rising precedence, two of them equal and right-associative *)
C25_Witness ==
    /\ pc = "scan"
    /\ loc_expr = Chain(<<"And", "And", "Star">>, "var")
    /\ pairs = <<>>
    /\ Len(ops_stack) = 3
    /\ StackOrdered(ops_stack)

(* An application built for an operator of the chain.                      *)
IsOperatorNode(n) ==
    /\ n.value.tag = "Apply"
    /\ n.value.called_via.via = "BinOp"
    /\ \E i \in 1..ChainLen : n.value.fn.region = ChainOp(i).region

(* The operand leaves under the operator nodes, left to right, and the     *)
(* operator nodes themselves, in order.                                    *)
RECURSIVE OperandLeaves(_)
OperandLeaves(n) ==
    IF IsOperatorNode(n)
    THEN Flatten([i \in 1..Len(n.value.args) |-> OperandLeaves(n.value.args[i])])
    ELSE <<n>>

RECURSIVE OperatorNodes(_)
OperatorNodes(n) ==
    IF IsOperatorNode(n)
    THEN IF Len(n.value.args) = 2
         THEN OperatorNodes(n.value.args[1]) \o <<n.value.fn>>
                  \o OperatorNodes(n.value.args[2])
         ELSE <<n.value.fn>>
                  \o Flatten([i \in 1..Len(n.value.args) |-> OperatorNodes(n.value.args[i])])
    ELSE <<>>

PipeFree == \A i \in 1..ChainLen : ChainOp(i).value # "Pizza"

(* C26: a chain without a pipe that desugars without a conflict gives one  *)
(* application per operator, the operators in their order, and the leaves  *)
(* under them are the desugared operands of the chain, each once, in the   *)
(* order of the chain.                                                     *)
C26_OperandsPreserved ==
    (NoConflict /\ PipeFree)
    => /\ OperandLeaves(result) = [i \in 1..(ChainLen + 1) |-> ChainOperand(i)]
       /\ OperatorNodes(result) =
            [i \in 1..ChainLen |->
                Loc(ChainOp(i).region, FunctionVar(binop_to_function(ChainOp(i).value)))]

C26_Witness ==
    /\ pc = "returned"
    /\ loc_expr = Chain(<<"Plus", "Star", "Minus">>, "call1")
    /\ Len(OperandLeaves(result)) = 4
    /\ OperandLeaves(result)[4] = ChainOperand(4)
    /\ IsOpApp(result, "Minus", result.value.args[1], ChainOperand(4))
    /\ IsOpApp(result.value.args[1], "Plus", ChainOperand(1),
               result.value.args[1].value.args[2])

(* All the nodes of a desugared operand tree.                              *)
RECURSIVE NodesOf(_)
NodesOf(e) ==
    IF e.value.tag = "Apply"
    THEN {e} \cup NodesOf(e.value.fn)
             \cup UNION {NodesOf(e.value.args[i]) : i \in 1..Len(e.value.args)}
    ELSE {e}

(* The operands right of the incoming operator, the trailing one included. *)
OperandsAhead ==
    {Desugared(pairs[k][1]) : k \in 1..Len(pairs)} \cup {Desugared(loc_expr.value.right)}

Conflicted == InChain /\ pc = "returned" /\ result.value.tag = "PrecedenceConflict"

(* binop_step answers Error: the call returns the marker.                  *)
ConflictStep ==
    /\ pc = "step"
    /\ pc' = "returned"
    /\ LET top == Len(args_stack)
           expr == result'.value.expr
       IN  /\ ops_stack # <<>>
           /\ top >= 2
           /\ result'.value =
                [tag |-> "PrecedenceConflict",
                 whole_region |-> loc_expr.region,
                 binop1_position |-> ops_stack[Len(ops_stack)].region[1],
                 binop1 |-> ops_stack[Len(ops_stack)].value,
                 binop2_position |-> incoming_op.region[1],
                 binop2 |-> incoming_op.value,
                 expr |-> expr]
           /\ IsOpApp(expr, ops_stack[Len(ops_stack)].value, args_stack[top - 1],
                      args_stack[top])
           /\ expr.value.fn.region = ops_stack[Len(ops_stack)].region
           /\ \A o \in OperandsAhead : NodesOf(o) \cap NodesOf(expr) = {}
           /\ \A i \in 1..(top - 2) : NodesOf(args_stack[i]) \cap NodesOf(expr) = {}
           /\ expr.region[2] <= incoming_op.region[1]
           /\ line_info' = line_info
           /\ pairs' = pairs

(* After the marker nothing of the chain is visited any more.              *)
ConflictEnds ==
    Conflicted => (pc' = "idle" /\ line_info' = line_info)

(* C27: a PrecedenceConflict marker holds the earlier conflicting operator *)
(* applied to the two operands on top of the operand stack; the operands   *)
(* lower on the stack and the operands right of the later operator, the    *)
(* trailing operand included, are not in the result, and those on the      *)
(* right are never desugared.                                              *)
C27_ConflictCutsTheChain ==
    /\ [][(pc = "step" /\ pc' = "returned") => ConflictStep]_vars
    /\ [][ConflictEnds]_vars
    /\ [](Conflicted => pairs = SubSeq(loc_expr.value.lefts, Visited + 1, ChainLen))

(* `a && b == c == (dbg y z)`: a is dropped, the trailing dbg is never     *)
(* desugared and line_info is still None.                                  *)
C27_Witness ==
    /\ Conflicted
    /\ loc_expr = Chain(<<"And", "Equals", "Equals">>, "dbg")
    /\ args_stack = <<ChainOperand(1)>>
    /\ IsOpApp(result.value.expr, "Equals", ChainOperand(2), ChainOperand(3))
    /\ ~line_info.computed

(***************************************************************************)
(* Properties of the declared scope                                        *)
(***************************************************************************)
(* c with every Let declaring, besides its own variables, those of the     *)
(* Lets around it.                                                         *)
RECURSIVE Widened(_, _, _)
Widened(c, rigid, flex) ==
    CASE c.tag = "Let" ->
            Let(rigid \cup c.rigid_vars, flex \cup c.flex_vars, c.def_types,
                Widened(c.defs_constraint, rigid \cup c.rigid_vars, flex \cup c.flex_vars),
                Widened(c.ret_constraint, rigid \cup c.rigid_vars, flex \cup c.flex_vars))
      [] c.tag = "And" ->
            And([i \in 1..Len(c.inner) |-> Widened(c.inner[i], rigid, flex)])
      [] OTHER -> c

(* An Eq, Pattern or Store of c holds a lambda-set variable that the Lets  *)
(* around it declare rigid and flexible, or a recursion variable that they *)
(* declare flexible and rigid.                                             *)
RECURSIVE DeclaredBothWays(_, _, _)
DeclaredBothWays(c, rigid, flex) ==
    CASE c.tag = "Let" ->
            \/ DeclaredBothWays(c.defs_constraint, rigid \cup c.rigid_vars,
                                flex \cup c.flex_vars)
            \/ DeclaredBothWays(c.ret_constraint, rigid \cup c.rigid_vars,
                                flex \cup c.flex_vars)
      [] c.tag = "And" ->
            \E i \in 1..Len(c.inner) : DeclaredBothWays(c.inner[i], rigid, flex)
      [] OTHER ->
            \E t \in TermsOf(c) :
                LambdaSetViolation(t, rigid \cap flex) \/ RecursionViolation(t, rigid \cap flex)

(* C28: the declared scope only grows along a path from the root:          *)
(* validate ends as it does when every Let repeats the declarations of the *)
(* Lets around it.  A lambda-set variable declared rigid by an enclosing   *)
(* Let, or a recursion variable declared flexible by one, makes validate   *)
(* fail with a role failure also when the same or another enclosing Let    *)
(* declares it the other way.                                              *)
C28_ScopeOnlyGrows ==
    Validated
    => /\ outcome = validate(Widened(constraint, {}, {}))
       /\ DeclaredBothWays(constraint, {}, {})
            => outcome.status = "panic" /\ outcome.why \in RolePanics

(* Rigid in the outer Let, flexible in the nearer one.                     *)
C28_Witness ==
    /\ pc = "panicked"
    /\ constraint = Let({1}, {}, <<>>,
                        Let({}, {1}, <<>>,
                            Eq(Function(EmptyRec, 1, EmptyRec), Variable(MaxVar)), True),
                        True)
    /\ outcome.why = LambdaSetRigid

(***************************************************************************)
(* unwrap_suffixed_expression as a state machine: one action per call      *)
(* entered, per iteration of the loop over the definitions of a Defs, and  *)
(* per return.  unwrap_stack holds the frames of the calls in progress.    *)
(***************************************************************************)
Frame(loc, index) == [expr |-> loc, index |-> index]

(* A block whose only definition has a block for its body.                 *)
NestedDefsInputs ==
    {Loc(<<0, 40>>, [tag |-> "Defs",
                     defs |-> <<Body(Ident("outer", 0), inner)>>,
                     ret |-> V("outer", 39)])
        : inner \in {e \in DefsInputs : Len(e.value.defs) = 1}}

(* The blocks that end in a variable; the final expression is not looked  *)
(* at by unwrap_suffixed_expression.                                       *)
UnwrapFamilies == {"Defs", "NestedDefs"}

UnwrapFamily(family) ==
    CASE family = "Defs" -> {e \in DefsInputs : e.value.ret.value.tag = "Var"}
      [] family = "NestedDefs" -> NestedDefsInputs

(* The chains that end in a variable; the scan of desugar_bin_ops does not *)
(* look at the trailing operand.                                           *)
ScannedChains ==
    UNION {{Chain(ops, "var") : ops \in [1..n -> ChainOps]} : n \in 1..MaxOps}

ScanCall ==
    /\ pc = "idle"
    /\ \E e \in ScannedChains : BinOpsCalled(e)
    /\ args_stack' = <<>>
    /\ ops_stack' = <<>>
    /\ pc' = "scan"
    /\ UNCHANGED <<line_info, result, constraint, outcome, incoming_op, unwrap_stack>>

(* The Defs branch of desugar_expr up to its call of                       *)
(* unwrap_suffixed_expression on the rebuilt node.                         *)
Unwrapping(e, d, r) ==
    /\ loc_expr' = e
    /\ line_info' = [computed |-> r.st.computed, builds |-> r.st.builds]
    /\ pc' = IF r.st.aborted THEN "aborted" ELSE "unwrap"
    /\ unwrap_stack' =
            IF r.st.aborted
            THEN <<>>
            ELSE <<Frame(Loc(e.region, [tag |-> "Defs", defs |-> d.out, ret |-> r.out]), 1)>>

UnwrapDesugared(e, d) ==
    IF d.st.aborted
    THEN Unwrapping(e, d, d)
    ELSE Unwrapping(e, d, desugar_expr(e.value.ret, d.st))

UnwrapCall ==
    /\ pc = "idle"
    /\ \E family \in UnwrapFamilies :
          \E e \in UnwrapFamily(family) :
              UnwrapDesugared(e, desugar_defs_node_values(e.value.defs, Threaded))
    /\ UNCHANGED <<result, constraint, outcome, args_stack, ops_stack, pairs, incoming_op>>

(* return Unwrapped::Unwrapped(loc_expr): the frame is popped; the last    *)
(* one returns to desugar_expr.                                            *)
UnwrapReturn(frames) ==
    /\ unwrap_stack' = frames
    /\ pc' = IF frames = <<>> THEN "returned" ELSE "unwrap"
    /\ result' = IF frames = <<>> THEN unwrap_stack[1].expr ELSE result

(* for (tag_index, type_or_value_def) in defs.defs().enumerate(): the body *)
(* of a ValueDef::Body is handed to a new call.                            *)
UnwrapLoop(frames, top, defs) ==
    /\ pc' = "unwrap"
    /\ result' = result
    /\ unwrap_stack' =
            IF defs[top.index].tag = "ValueDef::Body"
            THEN frames \o <<Frame(top.expr, top.index + 1),
                             Frame(defs[top.index].expr, 1)>>
            ELSE Append(frames, Frame(top.expr, top.index + 1))

(* _ => todo!()                                                            *)
UnwrapTodo ==
    /\ pc' = "aborted"
    /\ result' = result
    /\ unwrap_stack' = unwrap_stack

UnwrapFrame(frames, top) ==
    CASE top.expr.value.tag \in {"Var", "Apply"} -> UnwrapReturn(frames)
      [] top.expr.value.tag = "Defs" ->
            IF top.index <= Len(top.expr.value.defs)
            THEN UnwrapLoop(frames, top, top.expr.value.defs)
            ELSE UnwrapReturn(frames)
      [] OTHER -> UnwrapTodo

UnwrapStep ==
    /\ pc = "unwrap"
    /\ UnwrapFrame(SubSeq(unwrap_stack, 1, Len(unwrap_stack) - 1),
                   unwrap_stack[Len(unwrap_stack)])
    /\ UNCHANGED <<loc_expr, line_info, constraint, outcome,
                   args_stack, ops_stack, pairs, incoming_op>>

(* One stepwise call, each step taken when it can be: a running call is    *)
(* never suspended.                                                        *)
NextTermination ==
    \/ ScanCall \/ PushOperand \/ BinopStep \/ FoldRight
    \/ UnwrapCall \/ UnwrapStep

SpecTermination ==
    /\ Init
    /\ [][NextTermination]_vars
    /\ WF_vars(PushOperand)
    /\ WF_vars(BinopStep)
    /\ WF_vars(FoldRight)
    /\ WF_vars(UnwrapStep)

(* The stepwise unwrap ends as the Defs branch of desugar_expr does.       *)
UnwrapAgrees ==
    (loc_expr.value.tag = "Defs" /\ pc \in {"returned", "aborted"})
    => IF pc = "returned"
       THEN result = Desugared(loc_expr)
       ELSE desugar_expr(loc_expr, [computed |-> TRUE, builds |-> 0,
                                    aborted |-> FALSE]).st.aborted

(***************************************************************************)
(* Termination                                                             *)
(***************************************************************************)
RECURSIVE ExprSize(_)
RECURSIVE SumSizes(_)
SumSizes(locs) ==
    IF locs = <<>> THEN 0 ELSE ExprSize(Head(locs)) + SumSizes(Tail(locs))

BodiesOf(defs) ==
    Flatten([i \in 1..Len(defs) |->
                IF defs[i].tag = "ValueDef::Body" THEN <<defs[i].expr>> ELSE <<>>])

ExprSize(e) ==
    CASE e.value.tag = "Defs" ->
            1 + SumSizes(BodiesOf(e.value.defs)) + ExprSize(e.value.ret)
      [] e.value.tag = "Apply" -> 1 + ExprSize(e.value.fn) + SumSizes(e.value.args)
      [] OTHER -> 1

Running == pc \in {"scan", "step", "unwrap"}

Ended == pc \in {"returned", "aborted"}

(* A retry of run_binop_step: binop_step has answered Push.                *)
Retry == pc = "step" /\ pc' = "step"

(* unwrap_suffixed_expression calls itself.                                *)
Recursion == pc = "unwrap" /\ Len(unwrap_stack') > Len(unwrap_stack)

RecursesIntoBody ==
    LET caller == unwrap_stack[Len(unwrap_stack)].expr
        callee == unwrap_stack'[Len(unwrap_stack')].expr
    IN  /\ Len(unwrap_stack') = Len(unwrap_stack) + 1
        /\ caller.value.tag = "Defs"
        /\ \E i \in 1..Len(caller.value.defs) :
              /\ caller.value.defs[i].tag = "ValueDef::Body"
              /\ caller.value.defs[i].expr = callee
        /\ ExprSize(callee) < ExprSize(caller)

OneBuilderCall ==
    /\ Called
    /\ loc_expr.value.tag = "Apply"
    /\ Cardinality(BuilderArgs(loc_expr.value.args)) = 1

TheBuilderArg == CHOOSE i \in BuilderArgs(loc_expr.value.args) : TRUE

TheBuilderFields == Unspaced(loc_expr.value.args[TheBuilderArg].value).fields

(* The expressions of the applicative fields, in declaration order.        *)
ApplicativeExprs ==
    [i \in 1..Len(ApplicativeFrom(TheBuilderFields, 1)) |->
        Bare(TheBuilderFields[ApplicativeFrom(TheBuilderFields, 1)[i]].value).expr]

(* The call itself: the desugared function applied to the desugared        *)
(* arguments, the synthesized closure standing for the builder.            *)
BuilderCall ==
    Loc(loc_expr.region,
        Apply(Desugared(loc_expr.value.fn),
              [j \in 1..Len(loc_expr.value.args) |->
                    IF j = TheBuilderArg
                    THEN Desugared(record_builder_arg(loc_expr.value.args[j].region,
                                                      TheBuilderFields).closure)
                    ELSE Desugared(loc_expr.value.args[j])],
              loc_expr.value.called_via))

RECURSIVE BuilderLayer(_)
BuilderLayer(i) ==
    IF i = 0
    THEN BuilderCall
    ELSE Loc(loc_expr.region,
             Apply(Desugared(ApplicativeExprs[i]), <<BuilderLayer(i - 1)>>,
                   ViaRecordBuilder))

(* C30: a call with exactly one record-builder argument of k applicative   *)
(* fields returns the call, the closure in the builder's place, under      *)
(* exactly k applications called via record builder: layer i, counted from *)
(* the call outwards, applies the desugared expression of the i-th         *)
(* applicative field to layer i - 1 alone; with k = 0 the call is returned *)
(* as it is.                                                               *)
C30_RecordBuilderLayers ==
    OneBuilderCall
    => /\ pc = "returned"
       /\ result = BuilderLayer(Len(ApplicativeExprs))
       /\ BuilderCall.value.called_via # ViaRecordBuilder

(* Two applicative fields: two layers around the call.                     *)
C30_Witness ==
    /\ OneBuilderCall
    /\ pc = "returned"
    /\ Len(ApplicativeExprs) = 2
    /\ Len(loc_expr.value.args) >= 2
    /\ result.value.called_via = ViaRecordBuilder
    /\ result.value.fn = Desugared(ApplicativeExprs[2])
    /\ result.value.args[1].value.called_via = ViaRecordBuilder
    /\ result.value.args[1].value.fn = Desugared(ApplicativeExprs[1])
    /\ result.value.args[1].value.args[1].value.called_via = ViaSpace
    /\ result.value.args[1].value.args[1].value.args[TheBuilderArg].value.tag = "Closure"

====
